---- MODULE Spec2Model ----
(***************************************************************************)
(* embedspicedb: the lifecycle coordinator (EmbeddedServer, server.go),    *)
(* the debounced change watcher (FileWatcher, internal/watch/watcher.go)   *)
(* and the goroutines that connect them, as one state machine.             *)
(*                                                                         *)
(* Seven specifications share the variables and the actions:               *)
(*   Spec   the coordinator with the watcher it creates in Start, whose    *)
(*          reloadFunc is the closure calling es.ReloadSchema;             *)
(*   SpecW  one FileWatcher used on its own (as tests/watcher_test.go      *)
(*          does), whose reloadFunc is an opaque function;                 *)
(*   SpecL  the same FileWatcher over runs without end, under fair         *)
(*          scheduling;                                                    *)
(*   SpecH  the coordinator with HealthCheck and the health HTTP handler   *)
(*          (health.go);                                                   *)
(*   SpecD  the coordinator with the dial loop of Start step by step       *)
(*          (dialWithRetry, server.go);                                    *)
(*   SpecS  HealthCheck applied to every combination of the references it  *)
(*          tests for nil (health.go);                                     *)
(*   SpecR  a SchemaReloader over a list of files, and ReadSchemaFile      *)
(*          (internal/schema/reloader.go).                                 *)
(***************************************************************************)
EXTENDS Integers, Sequences, FiniteSets, TLC

\* ---------------------------------------------------------------- bounds
MaxStarts == 2       \* Spec: serve tasks launched by Start over one run
MaxTimers == 1       \* Spec: timers created by handleFileChange over one run
MaxObservers == 2    \* Spec: callbacks registered with OnSchemaReloaded
WTimers == 3         \* SpecW: timers created by handleFileChange over one run
LTimers == 2         \* SpecL: timers that can still run at any one time
MaxTime == 4         \* last clock tick
MaxFiles == 2        \* SpecR: length of the configured file list
Debounce == 2        \* fw.debounce, in clock ticks

Max(a, b) == IF a > b THEN a ELSE b

\* ------------------------------------------------------------- universes
Callers == {101, 102}              \* goroutines calling the public API
TimerIds == 1..Max(MaxTimers, WTimers)   \* one goroutine per time.AfterFunc
Threads == Callers \cup TimerIds
Handles == 1..MaxStarts            \* *grpc.ClientConn values, 0 is nil

\* Paths. "f1" and "f2" are schema files, "sib" is another file of the same
\* directory "dir": what a fallback directory watch also reports.
AllPaths == {"f1", "f2", "sib"}
Dir(p) == "dir"
\* fsnotify.Op bit sets an event can carry.
EventOps == {{"Write"}, {"Create"}, {"Chmod"}, {"Remove"}, {"Write", "Chmod"}}

VARIABLES
    lim,        \* the limits of the run: starts, timers, observers, clock step
    config,     \* es.config: SchemaFiles, HealthCheckEnabled
    es,         \* EmbeddedServer fields, mu and wg included
    fw,         \* the FileWatcher created last (gen = 0: none yet)
    timers,     \* every *time.Timer handleFileChange created
    burst,      \* history: the current burst of recorded edits
    pc,         \* position of each goroutine
    call,       \* per goroutine: the API call it is executing
    ret,        \* what the step just taken returned to its caller, if it returned
    connClosed, \* per connection handle: number of Close() calls
    dsClosed,   \* number of datastore.Close() calls
    launched,   \* number of serve tasks launched so far
    now         \* the clock

vars == <<lim, config, es, fw, timers, burst, pc, call, ret, connClosed, dsClosed,
          launched, now>>

\* ------------------------------------------------------------ call record
\* A call in progress: the reloader snapshot, Reload's outcome, the copied
\* callback list, the observers invoked so far, the shutdown steps done so far.
\* regAtDone remembers how many callbacks were registered when Reload completed.
\* For a Start inside dialWithRetry: the loop counter i, the dial attempts made,
\* the current backoff and the waits completed (in ms), and whether the
\* caller's context has been cancelled.
NoCall == [op |-> "none", snap |-> 0, outcome |-> "none", cbs |-> <<>>,
           notified |-> <<>>, regAtDone |-> 0, log |-> <<>>,
           i |-> 0, attempts |-> 0, backoff |-> 0, waits |-> <<>>,
           ctxDone |-> FALSE]

NewCall(o) == [NoCall EXCEPT !.op = o]

\* What a step hands to the outside. A return: from which call, the error (or
\* "nil"), the handle Client returned, and what the call did while it ran. An
\* event consumed by watchLoop: op "event", its Name and its Op bits.
\* A HealthCheck call or a health HTTP request adds the HealthStatus, the
\* probes issued to compute it with the answer each one got, and the HTTP
\* status code (0: no response).
NoHealth == [status |-> "", checks |-> <<>>, probes |-> {}, code |-> 0,
             answers |-> <<>>]

\* A Reload or ReadSchemaFile call adds the text it returned, the documents
\* it submitted with WriteSchema, and the referenced paths it read.
NoSchema == [text |-> "", submitted |-> <<>>, refReads |-> <<>>]

NoRet == [op |-> "none", err |-> "none", handle |-> 0, did |-> NoCall,
          name |-> "", bits |-> {}, health |-> NoHealth, schema |-> NoSchema]

Return(o, e) == [NoRet EXCEPT !.op = o, !.err = e, !.did = NewCall(o)]
ReturnOf(c, e) == [NoRet EXCEPT !.op = call[c].op, !.err = e, !.did = call[c]]

\* ------------------------------------------------------------ constructors
\* server.go:40-63 New(): started is false, no connection, empty callback
\* list, the datastore created (datastore: the reference is not nil).
NewServer == [started |-> FALSE, server |-> FALSE, conn |-> 0, reloader |-> 0,
              watcher |-> 0, reloadCallbacks |-> <<>>, healthSrv |-> FALSE,
              startTime |-> -1, cancelled |-> FALSE, mu |-> 0, wg |-> 0,
              datastore |-> TRUE]

NoWatcher == [gen |-> 0, files |-> {}, reloadFunc |-> "none", stopped |-> FALSE,
              cancelled |-> FALSE, closed |-> FALSE, mu |-> 0,
              pending |-> <<>>, timer |-> 0, loop |-> "none", targets |-> {},
              returned |-> FALSE, failed |-> FALSE]

\* watcher.go:33-64 NewFileWatcher(): a fresh instance; absFiles is the set of
\* the configured paths, pending is an empty map, the timer reference is nil.
\* returned is history: whether a Stop() of this instance has returned;
\* failed is history: whether a trigger of this instance has returned an error.
NewFileWatcher(g, files, f) ==
    [NoWatcher EXCEPT !.gen = g, !.files = files, !.reloadFunc = f]

\* A timer: armed, stopped or fired; its expiry; the watcher that created it.
\* (Stop() of a fired timer changes nothing.)
NoTimer == [state |-> "unused", deadline |-> 0, gen |-> 0]

NoBurst == [first |-> 0, last |-> 0, edits |-> 0, trigs |-> 0, by |-> 0]

Range(s) == {s[i] : i \in DOMAIN s}

\* The five-valued ServiceState of the data model, read off the code's state:
\* Start and Stop hold es.mu from their check to their return.
ServiceState ==
    IF es.mu \in Callers /\ call[es.mu].op = "Start" THEN "Starting"
    ELSE IF es.mu \in Callers /\ call[es.mu].op = "Stop" THEN "Stopping"
    ELSE IF es.started THEN "Running"
    ELSE IF dsClosed > 0 THEN "Stopped"
    ELSE "Created"

TypeOK ==
    /\ es.started \in BOOLEAN
    /\ es.mu \in Callers \cup {0}
    /\ es.conn \in Handles \cup {0}
    /\ now \in 0..MaxTime
    /\ launched \in 0..MaxStarts

Configs == [SchemaFiles : {<<>>, <<"f1">>}, HealthCheckEnabled : BOOLEAN]

InitCommon ==
    /\ es = NewServer
    /\ timers = [i \in TimerIds |-> NoTimer]
    /\ burst = NoBurst
    /\ pc = [t \in Threads |-> "idle"]
    /\ call = [t \in Threads |-> NoCall]
    /\ ret = NoRet
    /\ connClosed = [h \in Handles |-> 0]
    /\ dsClosed = 0
    /\ launched = 0
    /\ now = 0

\* The runs explored for the coordinator: one with restarts, one with
\* observers (both without edits of the schema files), and one with edits,
\* hence watcher-triggered reloads, a single Start and a single observer.
Runs ==
    LET run == [starts |-> 1, timers |-> 0, observers |-> 0,
                tick |-> Debounce, horizon |-> Debounce,
                events |-> {"f1", "sib"} \X {{"Write"}}]
    IN {[run EXCEPT !.starts = MaxStarts],
        [run EXCEPT !.observers = MaxObservers],
        [run EXCEPT !.timers = MaxTimers, !.observers = 1]}

\* The coordinator after New(config): no watcher exists yet.
Init ==
    /\ InitCommon
    /\ lim \in Runs
    /\ config \in Configs
    /\ fw = NoWatcher

\* ----------------------------------------------------------------- Reload
\* reloader.go:35-147, as the coordinator sees it: the outcomes Reload can have.
\* "reload failed" stands for every failure of a read or of the submit call.
\* A submit over a closed connection fails.
ReloadOutcomes(files, connOpen) ==
    IF Len(files) = 0 THEN {"no schema files configured"}
    ELSE {"reload failed"} \cup (IF connOpen THEN {"nil"} ELSE {})

\* ------------------------------------------------------------------ Start
\* Start with the started check of server.go:97-99 left out.
StartBegin_NoStartedCheck(c) ==
    /\ pc[c] = "idle"
    /\ es.mu = 0
    /\ launched < lim.starts
    /\ es' = [es EXCEPT !.mu = c, !.server = TRUE, !.wg = @ + 1]
    /\ launched' = launched + 1
    /\ call' = [call EXCEPT ![c] = NewCall("Start")]
    /\ pc' = [pc EXCEPT ![c] = "start_dial"]
    /\ ret' = NoRet
    /\ UNCHANGED <<lim, burst, config, fw, timers, connClosed, dsClosed, now>>

\* server.go:93-136. Lock, the started check, Complete(), launching the serve task.
StartBegin(c) ==
    /\ pc[c] = "idle"
    /\ es.mu = 0
    /\ UNCHANGED <<lim, burst, config, fw, timers, connClosed, dsClosed, now>>
    /\ \/ /\ es.started
          /\ ret' = Return("Start", "already started")
          /\ UNCHANGED <<es, pc, call, launched>>
       \/ /\ ~es.started
          /\ ret' = Return("Start", "config")
          /\ UNCHANGED <<es, pc, call, launched>>
       \/ /\ ~es.started
          /\ launched < lim.starts
          /\ es' = [es EXCEPT !.mu = c, !.server = TRUE, !.wg = @ + 1]
          /\ launched' = launched + 1
          /\ call' = [call EXCEPT ![c] = NewCall("Start")]
          /\ pc' = [pc EXCEPT ![c] = "start_dial"]
          /\ ret' = NoRet

\* Start handing the outcome of the initial reload to the observers.
StartDial_Notify(c) ==
    /\ pc[c] = "start_dial"
    /\ ret' = NoRet
    /\ UNCHANGED <<lim, burst, config, fw, timers, connClosed, dsClosed, launched, now>>
    /\ \/ /\ es' = [es EXCEPT !.cancelled = TRUE]
          /\ pc' = [pc EXCEPT ![c] = "start_rollback"]
          /\ UNCHANGED call
       \/ \E o \in ReloadOutcomes(config.SchemaFiles, connClosed[launched] = 0) :
          /\ es' = [es EXCEPT !.conn = launched, !.reloader = launched]
          /\ call' = [call EXCEPT
                         ![c].outcome = IF Len(config.SchemaFiles) > 0 THEN o ELSE @,
                         ![c].notified =
                             IF Len(config.SchemaFiles) > 0
                             THEN [i \in DOMAIN es.reloadCallbacks |->
                                      <<es.reloadCallbacks[i], o>>]
                             ELSE @]
          /\ pc' = [pc EXCEPT ![c] = "start_watch"]

\* server.go:139-155. dialWithRetry, then on success the reloader and the
\* initial reload (its failure is only logged); on failure cancel, then wait.
StartDial(c) ==
    /\ pc[c] = "start_dial"
    /\ ret' = NoRet
    /\ UNCHANGED <<lim, burst, config, fw, timers, connClosed, dsClosed, launched, now>>
    /\ \/ /\ es' = [es EXCEPT !.cancelled = TRUE]
          /\ pc' = [pc EXCEPT ![c] = "start_rollback"]
          /\ UNCHANGED call
       \/ \E o \in ReloadOutcomes(config.SchemaFiles, connClosed[launched] = 0) :
          /\ es' = [es EXCEPT !.conn = launched, !.reloader = launched]
          /\ call' = [call EXCEPT ![c].outcome =
                         IF Len(config.SchemaFiles) > 0 THEN o ELSE @]
          /\ pc' = [pc EXCEPT ![c] = "start_watch"]

\* The failed-dial return without the es.wg.Wait() of server.go:142.
StartRollback_NoWait(c) ==
    /\ pc[c] = "start_rollback"
    /\ es' = [es EXCEPT !.mu = 0]
    /\ ret' = ReturnOf(c, "dial")
    /\ call' = [call EXCEPT ![c] = NoCall]
    /\ pc' = [pc EXCEPT ![c] = "idle"]
    /\ UNCHANGED <<lim, burst, config, fw, timers, connClosed, dsClosed, launched, now>>

\* server.go:140-144: es.wg.Wait() after the failed dial, then the error return.
StartRollback(c) ==
    /\ pc[c] = "start_rollback"
    /\ es.wg = 0
    /\ es' = [es EXCEPT !.mu = 0]
    /\ ret' = ReturnOf(c, "dial")
    /\ call' = [call EXCEPT ![c] = NoCall]
    /\ pc' = [pc EXCEPT ![c] = "idle"]
    /\ UNCHANGED <<lim, burst, config, fw, timers, connClosed, dsClosed, launched, now>>

\* watcher.go:70-85: a file present on disk is watched itself, a missing one
\* through its parent directory.
WatchTargets(files, present) == {IF p \in present THEN p ELSE Dir(p) : p \in files}

\* A timer.Stop() that cancels nothing.
StopTimer_Noop(ts, id) == ts

\* watcher.go:95-102, the locked part of Stop(): the stopped flag, the
\* outstanding timer, the pending map.
StopTimer(ts, id) ==
    IF id # 0 /\ ts[id].state = "armed" THEN [ts EXCEPT ![id].state = "stopped"] ELSE ts

\* The locked part of Stop() without the flag and without clearing the map.
FWStopLocked_TimerOnly(w) == [w EXCEPT !.timer = 0]

\* The locked part of Stop() without line 101, the new pending map.
FWStopLocked_KeepPending(w) == [w EXCEPT !.stopped = TRUE, !.timer = 0]

FWStopLocked(w) == [w EXCEPT !.stopped = TRUE, !.timer = 0, !.pending = <<>>]

\* watcher.go:104-105: fw.cancel() and fw.watcher.Close().
FWStopClose(w) == [w EXCEPT !.cancelled = TRUE, !.closed = TRUE]

\* watcher.go:106: fw.wg.Wait() returns once watchLoop has exited (or never ran).
FWLoopGone(w) == w.loop # "running"

\* The watcher wiring with line 170 also run when watcher.Start() failed.
StartedWatcher_BindFailed(e, w) ==
    IF Len(config.SchemaFiles) = 0
    THEN {<<e, w>>}
    ELSE LET files == Range(config.SchemaFiles)
             inst == NewFileWatcher(w.gen + 1, files, "ReloadSchema")
         IN {<<e, w>>}
            \cup {<<[e EXCEPT !.watcher = inst.gen], FWStopClose(FWStopLocked(inst))>>}
            \cup {<<[e EXCEPT !.watcher = inst.gen],
                    [inst EXCEPT !.loop = "running",
                                 !.targets = WatchTargets(files, present)]>> :
                  present \in SUBSET files}

\* server.go:158-173. NewFileWatcher and watcher.Start(): the watcher Start
\* leaves behind. A failure of either is logged and leaves es.watcher as it was
\* (a watcher whose Start failed is stopped at once, line 167).
StartedWatcher(e, w) ==
    IF Len(config.SchemaFiles) = 0
    THEN {<<e, w>>}
    ELSE LET files == Range(config.SchemaFiles)
             inst == NewFileWatcher(w.gen + 1, files, "ReloadSchema")
         IN {<<e, w>>}
            \cup {<<e, FWStopClose(FWStopLocked(inst))>>}
            \cup {<<[e EXCEPT !.watcher = inst.gen],
                    [inst EXCEPT !.loop = "running",
                                 !.targets = WatchTargets(files, present)]>> :
                  present \in SUBSET files}

\* health.go:171-190 startHealthCheckServer: nothing when disabled; a listen
\* failure is returned (and logged by Start), the reference stays nil.
StartedHealth(e, ok) ==
    IF config.HealthCheckEnabled /\ ok THEN [e EXCEPT !.healthSrv = TRUE] ELSE e

\* server.go:157-191. The watcher, the start time, the health HTTP server,
\* started = true, unlock, return nil.
StartFinish(c) ==
    /\ pc[c] = "start_watch"
    /\ \E ew \in StartedWatcher(es, fw), ok \in BOOLEAN :
          /\ es' = [StartedHealth([ew[1] EXCEPT !.startTime = now], ok)
                       EXCEPT !.started = TRUE, !.mu = 0]
          /\ fw' = ew[2]
    /\ ret' = ReturnOf(c, "nil")
    /\ call' = [call EXCEPT ![c] = NoCall]
    /\ pc' = [pc EXCEPT ![c] = "idle"]
    /\ UNCHANGED <<lim, burst, config, timers, connClosed, dsClosed, launched, now>>

\* server.go:131-136: the serve goroutine; server.Run returns once es.ctx is cancelled.
ServeExit ==
    /\ es.wg > 0
    /\ es.cancelled
    /\ es' = [es EXCEPT !.wg = @ - 1]
    /\ ret' = NoRet
    /\ UNCHANGED <<lim, burst, config, fw, timers, pc, call, connClosed, dsClosed, launched, now>>

\* ------------------------------------------------------------------- Stop
\* health.go:193-209 stopHealthCheckServer: Shutdown of the health server; on
\* an error the reference is kept (and Stop logs the error).
StoppedHealth(e, ok) ==
    IF e.healthSrv /\ ok THEN [e EXCEPT !.healthSrv = FALSE] ELSE e

\* Stop with the started check of server.go:199-201 left out.
StopBegin_NoStartedCheck(c) ==
    /\ pc[c] = "idle"
    /\ es.mu = 0
    /\ \E ok \in BOOLEAN : es' = [StoppedHealth(es, ok) EXCEPT !.mu = c]
    /\ call' = [call EXCEPT ![c] = [NewCall("Stop") EXCEPT !.log = <<"health">>]]
    /\ pc' = [pc EXCEPT ![c] = "stop_watcher"]
    /\ ret' = NoRet
    /\ UNCHANGED <<lim, burst, config, fw, timers, connClosed, dsClosed, launched, now>>

\* server.go:195-208. Lock, the started check, the health server.
StopBegin(c) ==
    /\ pc[c] = "idle"
    /\ es.mu = 0
    /\ UNCHANGED <<lim, burst, config, fw, timers, connClosed, dsClosed, launched, now>>
    /\ IF ~es.started
       THEN /\ ret' = Return("Stop", "nil")
            /\ UNCHANGED <<es, pc, call>>
       ELSE /\ \E ok \in BOOLEAN : es' = [StoppedHealth(es, ok) EXCEPT !.mu = c]
            /\ call' = [call EXCEPT ![c] = [NewCall("Stop") EXCEPT !.log = <<"health">>]]
            /\ pc' = [pc EXCEPT ![c] = "stop_watcher"]
            /\ ret' = NoRet

\* server.go:211-215 with watcher.go:95-102. es.watcher.Stop() needs fw.mu. A
\* watcher of an earlier Start is stopped already: Stop() on it changes nothing.
StopWatcher(c) ==
    /\ pc[c] = "stop_watcher"
    /\ ret' = NoRet
    /\ UNCHANGED <<lim, burst, config, es, connClosed, dsClosed, launched, now>>
    /\ IF es.watcher = 0
       THEN /\ pc' = [pc EXCEPT ![c] = "stop_conn"]
            /\ UNCHANGED <<fw, timers, call>>
       ELSE /\ call' = [call EXCEPT ![c].log = Append(@, "watcher")]
            /\ IF es.watcher # fw.gen
               THEN /\ pc' = [pc EXCEPT ![c] = "stop_conn"]
                    /\ UNCHANGED <<fw, timers>>
               ELSE /\ fw.mu = 0
                    /\ fw' = FWStopLocked(fw)
                    /\ timers' = StopTimer(timers, fw.timer)
                    /\ pc' = [pc EXCEPT ![c] = "stop_wclose"]

\* watcher.go:104-105 inside the coordinator's Stop.
StopWatcherClose(c) ==
    /\ pc[c] = "stop_wclose"
    /\ fw' = FWStopClose(fw)
    /\ pc' = [pc EXCEPT ![c] = "stop_conn"]
    /\ ret' = NoRet
    /\ UNCHANGED <<lim, burst, config, es, timers, call, connClosed, dsClosed, launched, now>>

\* watcher.go:106-107 (fw.wg.Wait() of a watcher being stopped), then
\* server.go:218-225: close the connection, cancel es.ctx.
StopConn(c) ==
    /\ pc[c] = "stop_conn"
    /\ call[c].log[Len(call[c].log)] = "watcher" /\ es.watcher = fw.gen
          => FWLoopGone(fw)
    /\ connClosed' = IF es.conn # 0 THEN [connClosed EXCEPT ![es.conn] = @ + 1]
                     ELSE connClosed
    /\ es' = [es EXCEPT !.cancelled = TRUE]
    /\ fw' = IF call[c].log[Len(call[c].log)] = "watcher" /\ es.watcher = fw.gen
             THEN [fw EXCEPT !.returned = TRUE] ELSE fw
    /\ call' = [call EXCEPT ![c].log =
                   @ \o (IF es.conn # 0 THEN <<"conn">> ELSE <<>>) \o <<"cancel">>]
    /\ pc' = [pc EXCEPT ![c] = "stop_wait"]
    /\ ret' = NoRet
    /\ UNCHANGED <<lim, burst, config, timers, dsClosed, launched, now>>

\* Stop with the assignment of server.go:237 left out.
StopFinish_KeepStarted(c) ==
    /\ pc[c] = "stop_wait"
    /\ es.wg = 0
    /\ dsClosed' = dsClosed + 1
    /\ es' = [es EXCEPT !.mu = 0]
    /\ ret' = [ReturnOf(c, "nil") EXCEPT !.did.log = @ \o <<"wait", "datastore">>]
    /\ call' = [call EXCEPT ![c] = NoCall]
    /\ pc' = [pc EXCEPT ![c] = "idle"]
    /\ UNCHANGED <<lim, burst, config, fw, timers, connClosed, launched, now>>

\* The end of Stop without the es.wg.Wait() of server.go:228.
StopFinish_NoWait(c) ==
    /\ pc[c] = "stop_wait"
    /\ dsClosed' = dsClosed + 1
    /\ es' = [es EXCEPT !.started = FALSE, !.mu = 0]
    /\ ret' = [ReturnOf(c, "nil") EXCEPT !.did.log = @ \o <<"wait", "datastore">>]
    /\ call' = [call EXCEPT ![c] = NoCall]
    /\ pc' = [pc EXCEPT ![c] = "idle"]
    /\ UNCHANGED <<lim, burst, config, fw, timers, connClosed, launched, now>>

\* server.go:228-240: es.wg.Wait(), close the datastore, started = false, unlock.
StopFinish(c) ==
    /\ pc[c] = "stop_wait"
    /\ es.wg = 0
    /\ dsClosed' = dsClosed + 1
    /\ es' = [es EXCEPT !.started = FALSE, !.mu = 0]
    /\ ret' = [ReturnOf(c, "nil") EXCEPT !.did.log = @ \o <<"wait", "datastore">>]
    /\ call' = [call EXCEPT ![c] = NoCall]
    /\ pc' = [pc EXCEPT ![c] = "idle"]
    /\ UNCHANGED <<lim, burst, config, fw, timers, connClosed, launched, now>>

\* ----------------------------------------------------------------- Client
\* Client with the started check of server.go:259-261 left out.
Client_NoStartedCheck(c) ==
    /\ pc[c] = "idle"
    /\ es.mu = 0
    /\ ret' = IF es.conn = 0 THEN Return("Client", "no connection")
              ELSE [Return("Client", "nil") EXCEPT !.handle = es.conn]
    /\ UNCHANGED <<lim, burst, config, es, fw, timers, pc, call, connClosed, dsClosed, launched, now>>

\* server.go:255-268, one read-locked section.
Client(c) ==
    /\ pc[c] = "idle"
    /\ es.mu = 0
    /\ ret' = IF ~es.started THEN Return("Client", "not started")
              ELSE IF es.conn = 0 THEN Return("Client", "no connection")
              ELSE [Return("Client", "nil") EXCEPT !.handle = es.conn]
    /\ UNCHANGED <<lim, burst, config, es, fw, timers, pc, call, connClosed, dsClosed, launched, now>>

\* ------------------------------------------------------- OnSchemaReloaded
\* OnSchemaReloaded putting the new callback at the front of the list.
OnSchemaReloaded_Prepend(c) ==
    /\ pc[c] = "idle"
    /\ es.mu = 0
    /\ Len(es.reloadCallbacks) < lim.observers
    /\ es' = [es EXCEPT !.reloadCallbacks = <<Len(@) + 1>> \o @]
    /\ ret' = Return("OnSchemaReloaded", "nil")
    /\ UNCHANGED <<lim, burst, config, fw, timers, pc, call, connClosed, dsClosed, launched, now>>

\* server.go:304-309, under the write lock: append. Callback values are
\* numbered in the order they are registered.
OnSchemaReloaded(c) ==
    /\ pc[c] = "idle"
    /\ es.mu = 0
    /\ Len(es.reloadCallbacks) < lim.observers
    /\ es' = [es EXCEPT !.reloadCallbacks = Append(@, Len(@) + 1)]
    /\ ret' = Return("OnSchemaReloaded", "nil")
    /\ UNCHANGED <<lim, burst, config, fw, timers, pc, call, connClosed, dsClosed, launched, now>>

\* ----------------------------------------------------------- ReloadSchema
\* ReloadSchema returns e to its caller. A caller goroutine becomes idle; the
\* debounce callback (watcher.go:186-189) logs the error and unlocks fw.mu.
ReloadReturns(t, r) ==
    /\ ret' = r
    /\ call' = [call EXCEPT ![t] = NoCall]
    /\ IF t \in Callers
       THEN /\ pc' = [pc EXCEPT ![t] = "idle"]
            /\ UNCHANGED fw
       ELSE /\ pc' = [pc EXCEPT ![t] = "done"]
            /\ fw' = [fw EXCEPT !.mu = 0, !.failed = @ \/ r.err # "nil"]

\* ReloadSchema with the started check of server.go:273-276 left out.
RSBegin_NoStartedCheck(t) ==
    /\ \/ t \in Callers /\ pc[t] = "idle"
       \/ t \in TimerIds /\ pc[t] = "trigger" /\ fw.reloadFunc = "ReloadSchema"
    /\ es.mu = 0
    /\ UNCHANGED <<lim, burst, config, es, timers, connClosed, dsClosed, launched, now>>
    /\ IF es.reloader = 0
       THEN ReloadReturns(t, Return("ReloadSchema", "no reloader"))
       ELSE /\ call' = [call EXCEPT ![t] =
                           [NewCall("ReloadSchema") EXCEPT !.snap = es.reloader]]
            /\ pc' = [pc EXCEPT ![t] = "rs_reload"]
            /\ ret' = NoRet
            /\ UNCHANGED fw

\* ReloadSchema with reloads serialized: a started coordinator lets one
\* reload at a time past the snapshot.
RSBegin_Serialized(t) ==
    /\ \/ t \in Callers /\ pc[t] = "idle"
       \/ t \in TimerIds /\ pc[t] = "trigger" /\ fw.reloadFunc = "ReloadSchema"
    /\ es.mu = 0
    /\ UNCHANGED <<lim, burst, config, es, timers, connClosed, dsClosed, launched, now>>
    /\ IF ~es.started
       THEN ReloadReturns(t, Return("ReloadSchema", "not started"))
       ELSE IF es.reloader = 0
       THEN ReloadReturns(t, Return("ReloadSchema", "no reloader"))
       ELSE /\ \A u \in Threads : pc[u] # "rs_reload"
            /\ call' = [call EXCEPT ![t] =
                           [NewCall("ReloadSchema") EXCEPT !.snap = es.reloader]]
            /\ pc' = [pc EXCEPT ![t] = "rs_reload"]
            /\ ret' = NoRet
            /\ UNCHANGED fw

\* server.go:271-284: the read-locked checks and the reloader snapshot.
RSBegin(t) ==
    /\ \/ t \in Callers /\ pc[t] = "idle"
       \/ t \in TimerIds /\ pc[t] = "trigger" /\ fw.reloadFunc = "ReloadSchema"
    /\ es.mu = 0
    /\ UNCHANGED <<lim, burst, config, es, timers, connClosed, dsClosed, launched, now>>
    /\ IF ~es.started
       THEN ReloadReturns(t, Return("ReloadSchema", "not started"))
       ELSE IF es.reloader = 0
       THEN ReloadReturns(t, Return("ReloadSchema", "no reloader"))
       ELSE /\ call' = [call EXCEPT ![t] =
                           [NewCall("ReloadSchema") EXCEPT !.snap = es.reloader]]
            /\ pc' = [pc EXCEPT ![t] = "rs_reload"]
            /\ ret' = NoRet
            /\ UNCHANGED fw

\* server.go:287: reloader.Reload(ctx), with no lock held.
RSReload(t) ==
    /\ pc[t] = "rs_reload"
    /\ \E o \in ReloadOutcomes(config.SchemaFiles, connClosed[call[t].snap] = 0) :
          call' = [call EXCEPT ![t].outcome = o,
                               ![t].regAtDone = Len(es.reloadCallbacks)]
    /\ pc' = [pc EXCEPT ![t] = "rs_copy"]
    /\ ret' = NoRet
    /\ UNCHANGED <<lim, burst, config, es, fw, timers, connClosed, dsClosed, launched, now>>

\* ReloadSchema looking at es.started again before it copies the callback
\* list, and dropping the outcome when the coordinator has been stopped.
RSCopy_SkipWhenStopped(t) ==
    /\ pc[t] = "rs_copy"
    /\ es.mu = 0
    /\ UNCHANGED <<lim, burst, config, es, timers, connClosed, dsClosed, launched, now>>
    /\ IF Len(es.reloadCallbacks) = 0 \/ ~es.started
       THEN ReloadReturns(t, ReturnOf(t, call[t].outcome))
       ELSE /\ call' = [call EXCEPT ![t].cbs = es.reloadCallbacks]
            /\ pc' = [pc EXCEPT ![t] = "rs_notify"]
            /\ ret' = NoRet
            /\ UNCHANGED fw

\* server.go:290-293: the callback list is copied under the read lock.
RSCopy(t) ==
    /\ pc[t] = "rs_copy"
    /\ es.mu = 0
    /\ UNCHANGED <<lim, burst, config, es, timers, connClosed, dsClosed, launched, now>>
    /\ IF Len(es.reloadCallbacks) = 0
       THEN ReloadReturns(t, ReturnOf(t, call[t].outcome))
       ELSE /\ call' = [call EXCEPT ![t].cbs = es.reloadCallbacks]
            /\ pc' = [pc EXCEPT ![t] = "rs_notify"]
            /\ ret' = NoRet
            /\ UNCHANGED fw

\* server.go:295-299: the callbacks are invoked in order with err, then err is returned.
RSNotify(t) ==
    /\ pc[t] = "rs_notify"
    /\ UNCHANGED <<lim, burst, config, es, timers, connClosed, dsClosed, launched, now>>
    /\ LET i == Len(call[t].notified) + 1
           n == Append(call[t].notified, <<call[t].cbs[i], call[t].outcome>>)
       IN IF i = Len(call[t].cbs)
          THEN ReloadReturns(t, [ReturnOf(t, call[t].outcome) EXCEPT !.did.notified = n])
          ELSE /\ call' = [call EXCEPT ![t].notified = n]
               /\ ret' = NoRet
               /\ UNCHANGED <<pc, fw>>

\* ---------------------------------------------------------------- watcher
\* A match by directory instead of by exact path.
isWatchedFile_ByDir(w, path) == Dir(path) \in {Dir(f) : f \in w.files}

\* watcher.go:139-142: exact match against the configured absolute paths.
isWatchedFile(w, path) == path \in w.files

\* watcher.go:124-125: the events watchLoop hands to handleFileChange.
Qualifies(w, path, bits) ==
    isWatchedFile(w, path) /\ ("Write" \in bits \/ "Create" \in bits)

\* The timer a time.AfterFunc call creates next: timers are numbered in the
\* order they are created.
NextTimer == Cardinality({i \in TimerIds : timers[i].state # "unused"}) + 1

\* History for the debounce claims: the burst of recorded edits in progress. A
\* recorded edit opens a new burst when a full debounce interval has passed
\* since the previous recorded edit; trigs counts the trigger invocations since
\* the burst opened, by is the expiry time of the timer that invoked the last one.
Recorded(b, t) ==
    IF b.edits = 0 \/ t - b.last >= Debounce
    THEN [first |-> t, last |-> t, edits |-> 1, trigs |-> 0, by |-> 0]
    ELSE [b EXCEPT !.last = t, !.edits = @ + 1]

\* handleFileChange without the stopped check of watcher.go:148-150.
handleFileChange_NoStoppedCheck(path) ==
    /\ NextTimer <= lim.timers
    /\ fw' = [fw EXCEPT !.pending = [q \in DOMAIN @ \cup {path} |-> now],
                        !.timer = NextTimer]
    /\ timers' = [StopTimer(timers, fw.timer) EXCEPT ![NextTimer] =
                     [state |-> "armed", deadline |-> now + Debounce, gen |-> fw.gen]]
    /\ burst' = Recorded(burst, now)

\* watcher.go:144-159 and the time.AfterFunc call of line 161: under fw.mu,
\* nothing if stopped; else record the path, Stop() the old timer (which does
\* not reach a timer that has fired already), arm a new one.
handleFileChange(path) ==
    IF fw.stopped
    THEN UNCHANGED <<fw, timers, burst>>
    ELSE /\ NextTimer <= lim.timers
         /\ fw' = [fw EXCEPT !.pending = [q \in DOMAIN @ \cup {path} |-> now],
                             !.timer = NextTimer]
         /\ timers' = [StopTimer(timers, fw.timer) EXCEPT ![NextTimer] =
                          [state |-> "armed", deadline |-> now + Debounce, gen |-> fw.gen]]
         /\ burst' = Recorded(burst, now)

\* watcher.go:118-128: watchLoop receives one event from fsnotify. fsnotify
\* reports a watched file, and every entry of a watched directory.
FsEvent(path, bits) ==
    /\ fw.loop = "running"
    /\ ~fw.closed
    /\ <<path, bits>> \in lim.events
    /\ path \in fw.targets \/ Dir(path) \in fw.targets
    /\ IF Qualifies(fw, path, bits)
       THEN fw.mu = 0 /\ handleFileChange(path)
       ELSE UNCHANGED <<fw, timers, burst>>
    /\ ret' = [NoRet EXCEPT !.op = "event", !.name = path, !.bits = bits]
    /\ UNCHANGED <<lim, config, es, pc, call, connClosed, dsClosed, launched, now>>

\* watcher.go:111-121: watchLoop returns on ctx.Done() or on the closed Events channel.
LoopExit ==
    /\ fw.loop = "running"
    /\ fw.cancelled \/ fw.closed
    /\ fw' = [fw EXCEPT !.loop = "exited"]
    /\ ret' = NoRet
    /\ UNCHANGED <<lim, config, es, timers, burst, pc, call, connClosed, dsClosed,
                   launched, now>>

\* The runtime fires an armed timer whose time has come: the function of
\* watcher.go:161 starts in its own goroutine, lines 162-166 look at fw.ctx.
\* A timer of an earlier watcher instance belongs to a stopped watcher.
TimerFire(t) ==
    /\ timers[t].state = "armed"
    /\ now >= timers[t].deadline
    /\ timers' = [timers EXCEPT ![t].state = "fired"]
    /\ pc' = [pc EXCEPT ![t] =
                 IF timers[t].gen # fw.gen \/ fw.cancelled THEN "done" ELSE "lock"]
    /\ ret' = NoRet
    /\ UNCHANGED <<lim, config, es, fw, burst, call, connClosed, dsClosed, launched, now>>

\* The callback releasing fw.mu before it invokes the trigger.
CallbackLock_UnlockBeforeTrigger(t) ==
    /\ pc[t] = "lock"
    /\ fw.mu = 0
    /\ ret' = NoRet
    /\ UNCHANGED <<lim, config, es, timers, call, connClosed, dsClosed, launched, now>>
    /\ IF timers[t].gen # fw.gen \/ fw.stopped \/ DOMAIN fw.pending = {}
       THEN /\ pc' = [pc EXCEPT ![t] = "done"]
            /\ UNCHANGED <<fw, burst>>
       ELSE /\ fw' = [fw EXCEPT !.pending = <<>>]
            /\ burst' = [burst EXCEPT !.trigs = @ + 1, !.by = timers[t].deadline]
            /\ pc' = [pc EXCEPT ![t] = "trigger"]

\* watcher.go:168-183: the callback takes fw.mu; stopped or nothing pending:
\* return. Otherwise the pending map is cleared and the trigger is invoked,
\* fw.mu stays held until the trigger has returned (the deferred Unlock).
CallbackLock(t) ==
    /\ pc[t] = "lock"
    /\ fw.mu = 0
    /\ ret' = NoRet
    /\ UNCHANGED <<lim, config, es, timers, call, connClosed, dsClosed, launched, now>>
    /\ IF timers[t].gen # fw.gen \/ fw.stopped \/ DOMAIN fw.pending = {}
       THEN /\ pc' = [pc EXCEPT ![t] = "done"]
            /\ UNCHANGED <<fw, burst>>
       ELSE /\ fw' = [fw EXCEPT !.pending = <<>>, !.mu = t]
            /\ burst' = [burst EXCEPT !.trigs = @ + 1, !.by = timers[t].deadline]
            /\ pc' = [pc EXCEPT ![t] = "trigger"]

\* The callback of watcher.go:186-189 disabling the watcher when the trigger
\* has returned an error.
TriggerReturn_StopOnError(t) ==
    /\ pc[t] = "trigger"
    /\ fw.reloadFunc = "func"
    /\ pc' = [pc EXCEPT ![t] = "done"]
    /\ \E e \in {"nil", "error"} :
          /\ fw' = [fw EXCEPT !.mu = 0, !.failed = @ \/ e # "nil",
                              !.stopped = @ \/ e # "nil"]
          /\ ret' = Return("reloadFunc", e)
    /\ UNCHANGED <<lim, config, es, timers, burst, call, connClosed, dsClosed, launched, now>>

\* watcher.go:186-189 for a reloadFunc that is not the coordinator's: it
\* returns nil or an error, the error is logged, fw.mu is released.
TriggerReturn(t) ==
    /\ pc[t] = "trigger"
    /\ fw.reloadFunc = "func"
    /\ pc' = [pc EXCEPT ![t] = "done"]
    /\ \E e \in {"nil", "error"} :
          /\ fw' = [fw EXCEPT !.mu = 0, !.failed = @ \/ e # "nil"]
          /\ ret' = Return("reloadFunc", e)
    /\ UNCHANGED <<lim, config, es, timers, burst, call, connClosed, dsClosed, launched, now>>

\* Time passes. A timer that is due fires before the clock moves on.
Tick ==
    /\ now + lim.tick <= lim.horizon
    /\ \A i \in TimerIds : timers[i].state = "armed" => timers[i].deadline > now
    /\ now' = now + lim.tick
    /\ ret' = NoRet
    /\ UNCHANGED <<lim, config, es, fw, timers, burst, pc, call, connClosed, dsClosed, launched>>

\* ------------------------------------------------ the watcher on its own
\* watcher.go:67-91 Start(), called by the watcher's owner: the watches are
\* added and watchLoop is launched; a failing Add (always, once the fsnotify
\* watcher is closed) returns the error and launches nothing.
WStart(c) ==
    /\ pc[c] = "idle"
    /\ fw.loop = "none"
    /\ \/ /\ ret' = Return("watcher.Start", "error")
          /\ UNCHANGED fw
       \/ /\ ~fw.closed
          /\ \E present \in SUBSET fw.files :
                fw' = [fw EXCEPT !.loop = "running",
                                 !.targets = WatchTargets(fw.files, present)]
          /\ ret' = Return("watcher.Start", "nil")
    /\ UNCHANGED <<lim, config, es, timers, burst, pc, call, connClosed, dsClosed,
                   launched, now>>

\* watcher.go:95-102 Stop(), called by the watcher's owner.
WStopLock(c) ==
    /\ pc[c] = "idle"
    /\ fw.mu = 0
    /\ fw' = FWStopLocked(fw)
    /\ timers' = StopTimer(timers, fw.timer)
    /\ pc' = [pc EXCEPT ![c] = "w_close"]
    /\ ret' = NoRet
    /\ UNCHANGED <<lim, config, es, burst, call, connClosed, dsClosed, launched, now>>

\* watcher.go:104-105.
WStopClose(c) ==
    /\ pc[c] = "w_close"
    /\ fw' = FWStopClose(fw)
    /\ pc' = [pc EXCEPT ![c] = "w_wait"]
    /\ ret' = NoRet
    /\ UNCHANGED <<lim, config, es, timers, burst, call, connClosed, dsClosed, launched, now>>

\* watcher.go:106-107: fw.wg.Wait(), then the result of Close() is returned.
WStopWait(c) ==
    /\ pc[c] = "w_wait"
    /\ FWLoopGone(fw)
    /\ fw' = [fw EXCEPT !.returned = TRUE]
    /\ pc' = [pc EXCEPT ![c] = "idle"]
    /\ \E e \in {"nil", "error"} : ret' = Return("watcher.Stop", e)
    /\ UNCHANGED <<lim, config, es, timers, burst, call, connClosed, dsClosed, launched, now>>

Next ==
    \/ \E c \in Callers :
          \/ StartBegin(c) \/ StartDial(c) \/ StartRollback(c) \/ StartFinish(c)
          \/ StopBegin(c) \/ StopWatcher(c) \/ StopWatcherClose(c)
          \/ StopConn(c) \/ StopFinish(c)
          \/ Client(c)
          \/ OnSchemaReloaded(c)
    \/ \E t \in Threads : RSBegin(t) \/ RSReload(t) \/ RSCopy(t) \/ RSNotify(t)
    \/ ServeExit
    \/ \E path \in AllPaths, bits \in EventOps : FsEvent(path, bits)
    \/ LoopExit
    \/ \E t \in TimerIds : TimerFire(t) \/ CallbackLock(t)
    \/ Tick

Spec == Init /\ [][Next]_vars

\* A FileWatcher constructed with NewFileWatcher(files, debounce, reloadFunc)
\* and driven by its owner; no coordinator is started.
InitW ==
    /\ InitCommon
    /\ lim = [starts |-> 0, timers |-> WTimers, observers |-> 0,
              tick |-> 1, horizon |-> MaxTime, events |-> AllPaths \X EventOps]
    /\ config = [SchemaFiles |-> <<>>, HealthCheckEnabled |-> FALSE]
    /\ \E files \in {{"f1"}, {"f1", "f2"}} : fw = NewFileWatcher(1, files, "func")

NextW ==
    \/ \E c \in Callers : WStart(c) \/ WStopLock(c) \/ WStopClose(c) \/ WStopWait(c)
    \/ \E path \in AllPaths, bits \in EventOps : FsEvent(path, bits)
    \/ LoopExit
    \/ \E t \in TimerIds : TimerFire(t) \/ CallbackLock(t) \/ TriggerReturn(t)
    \/ Tick

SpecW == InitW /\ [][NextW]_vars

\* ------------------------------------- the watcher over an unbounded run
\* For runs without end the clock is read relative to the present: now
\* stays 0 and a tick moves every recorded time one tick into the past
\* (times older than one debounce interval are kept as one interval old),
\* and a *time.Timer that can never run again gives its place to a new one.
Older(t) == Max(t - lim.tick, 0 - Debounce)

\* Time passes, in the relative reading of the clock.
TickOn ==
    /\ \A i \in TimerIds : timers[i].state = "armed" => timers[i].deadline > now
    /\ timers' = [i \in TimerIds |->
                     IF timers[i].state = "unused" THEN timers[i]
                     ELSE [timers[i] EXCEPT !.deadline = Older(@)]]
    /\ fw' = [fw EXCEPT !.pending = [q \in DOMAIN @ |-> Older(@[q])]]
    /\ burst' = IF burst.edits = 0 THEN burst
                ELSE [burst EXCEPT !.first = Older(@), !.last = Older(@),
                                   !.by = IF burst.trigs = 0 THEN @ ELSE Older(@)]
    /\ ret' = NoRet
    /\ UNCHANGED <<lim, config, es, pc, call, connClosed, dsClosed, launched, now>>

\* A timer that can never run again: never created, stopped before it
\* fired, or fired with its callback returned.
Finished(ts, i) ==
    \/ ts[i].state \in {"unused", "stopped"}
    \/ ts[i].state = "fired" /\ pc[i] = "done"

\* The place of the timer time.AfterFunc creates next, the old one stopped.
FreeTimers(ts) == {i \in TimerIds : i <= lim.timers /\ Finished(ts, i)}
NewTimer(ts) == CHOOSE i \in FreeTimers(ts) : \A j \in FreeTimers(ts) : i <= j

\* handleFileChange recording the change without arming a timer when the
\* watcher already refers to one.
handleFileChangeOn_NoRearm(path) ==
    IF fw.stopped
    THEN UNCHANGED <<fw, timers, burst, pc>>
    ELSE LET stopped == StopTimer(timers, fw.timer)
             id == NewTimer(stopped)
         IN /\ FreeTimers(stopped) # {}
            /\ burst' = Recorded(NoBurst, now)
            /\ IF fw.timer # 0
               THEN /\ fw' = [fw EXCEPT !.pending = [q \in DOMAIN @ \cup {path} |-> now]]
                    /\ UNCHANGED <<timers, pc>>
               ELSE /\ fw' = [fw EXCEPT !.pending = [q \in DOMAIN @ \cup {path} |-> now],
                                        !.timer = id]
                    /\ timers' = [stopped EXCEPT ![id] =
                                     [state |-> "armed", deadline |-> now + Debounce,
                                      gen |-> fw.gen]]
                    /\ pc' = [pc EXCEPT ![id] = "idle"]

\* watcher.go:144-161 as handleFileChange above, the new timer taking a
\* free place. Of the history only the last recorded edit is kept, and the
\* triggers invoked since.
handleFileChangeOn(path) ==
    IF fw.stopped
    THEN UNCHANGED <<fw, timers, burst, pc>>
    ELSE LET stopped == StopTimer(timers, fw.timer)
             id == NewTimer(stopped)
         IN /\ FreeTimers(stopped) # {}
            /\ fw' = [fw EXCEPT !.pending = [q \in DOMAIN @ \cup {path} |-> now],
                                !.timer = id]
            /\ timers' = [stopped EXCEPT ![id] =
                             [state |-> "armed", deadline |-> now + Debounce,
                              gen |-> fw.gen]]
            /\ burst' = Recorded(NoBurst, now)
            /\ pc' = [pc EXCEPT ![id] = "idle"]

\* watcher.go:118-128 as FsEvent above.
FsEventOn(path, bits) ==
    /\ fw.loop = "running"
    /\ ~fw.closed
    /\ <<path, bits>> \in lim.events
    /\ path \in fw.targets \/ Dir(path) \in fw.targets
    /\ IF Qualifies(fw, path, bits)
       THEN fw.mu = 0 /\ handleFileChangeOn(path)
       ELSE UNCHANGED <<fw, timers, burst, pc>>
    /\ ret' = [NoRet EXCEPT !.op = "event", !.name = path, !.bits = bits]
    /\ UNCHANGED <<lim, config, es, call, connClosed, dsClosed, launched, now>>

\* A FileWatcher on one file, constructed with NewFileWatcher.
InitL ==
    /\ InitCommon
    /\ lim = [starts |-> 0, timers |-> LTimers, observers |-> 0,
              tick |-> 1, horizon |-> 0,
              events |-> {"f1", "sib"} \X {{"Write"}, {"Chmod"}}]
    /\ config = [SchemaFiles |-> <<>>, HealthCheckEnabled |-> FALSE]
    /\ fw = NewFileWatcher(1, {"f1"}, "func")

NextL ==
    \/ \E c \in Callers : WStart(c) \/ WStopLock(c) \/ WStopClose(c) \/ WStopWait(c)
    \/ \E path \in AllPaths, bits \in EventOps : FsEventOn(path, bits)
    \/ LoopExit
    \/ \E t \in TimerIds : TimerFire(t) \/ CallbackLock(t) \/ TriggerReturn(t)
    \/ TickOn

\* The scheduling the watcher's liveness rests on: the clock advances, a
\* due timer fires, a callback waiting for fw.mu gets it once it stays free
\* (sync.Mutex does not starve a waiter), and the trigger returns. Events
\* and the owner's calls are under no obligation.
FairL ==
    /\ WF_vars(TickOn)
    /\ \A t \in TimerIds :
          /\ WF_vars(TimerFire(t))
          /\ WF_vars(CallbackLock(t))
          /\ WF_vars(TriggerReturn(t))

\* One FileWatcher driven by its owner and by events without end.
SpecL == InitL /\ [][NextL]_vars /\ FairL

\* ----------------------------------------------------------------- health
\* health.go:41-48: what HealthCheck reads under one read lock. The datastore
\* reference is set by New (server.go:56) and never cleared.
HealthSnapshot ==
    [started |-> es.started, startTime |-> es.startTime, conn |-> es.conn,
     ds |-> es.datastore, reloader |-> es.reloader, schemaFiles |-> config.SchemaFiles]

\* The answers of the ReadSchema probe: schema text, an empty text, the
\* NotFound status, another error. Over a closed connection the call fails.
SchemaProbes(conn) ==
    IF conn # 0 /\ connClosed[conn] > 0 THEN {"error"}
    ELSE {"text", "empty", "NotFound", "error"}

\* The answers of the datastore Statistics probe.
StatsProbes == {"ok", "error"}

\* The connection check with every failed probe recorded as an error.
GrpcCheck_EveryFailureIsError(snap, schema) ==
    IF snap.conn = 0 THEN "not_available"
    ELSE IF schema \in {"NotFound", "error"} THEN "error"
    ELSE "healthy"

\* health.go:69-93: the "grpc_connection" check, from the answer of the
\* ReadSchema probe.
GrpcCheck(snap, schema) ==
    IF snap.conn = 0 THEN "not_available"
    ELSE IF schema \notin {"NotFound", "error"} THEN "healthy"
    ELSE IF Len(snap.schemaFiles) = 0 /\ schema = "NotFound"
         THEN "healthy (no schema defined)"
    ELSE "error"

\* HealthCheck with the started check of health.go:51-55 left out.
HealthStatus_NoStartedCheck(snap, schema, stats) ==
    [NoHealth EXCEPT !.status = "healthy", !.probes = {"ReadSchema", "Statistics"},
                     !.checks = [server |-> "started"]]

\* health.go:33-148 on a snapshot, given the answers of the two probes.
\* The overall status is carried from check to check as in the code.
HealthStatus(snap, schema, stats) ==
    IF ~snap.started
    THEN [NoHealth EXCEPT !.status = "unhealthy",
                          !.checks = [server |-> "not_started"]]
    ELSE
    LET noFiles == Len(snap.schemaFiles) = 0
        schemaErr == snap.conn # 0 /\ schema \in {"NotFound", "error"}
        schemaText == snap.conn # 0 /\ schema = "text"
        grpc == GrpcCheck(snap, schema)
        s1 == IF grpc \in {"not_available", "error"} THEN "degraded" ELSE ""
        dsc == IF ~snap.ds THEN "not_available"
               ELSE IF stats = "error" THEN "error" ELSE "healthy"
        s2 == IF dsc = "not_available" THEN "unhealthy"
              ELSE IF dsc = "error" /\ s1 # "unhealthy" THEN "degraded"
              ELSE s1
        sch == IF noFiles THEN "not_configured"
               ELSE IF snap.reloader = 0 THEN "reloader_not_available"
               ELSE IF schemaErr THEN "error"
               ELSE IF ~schemaText THEN "not_loaded"
               ELSE "loaded"
        s3 == IF sch \in {"reloader_not_available", "error", "not_loaded"}
              THEN "degraded" ELSE s2
    IN [NoHealth EXCEPT
           !.status = IF s3 = "" THEN "healthy" ELSE s3,
           !.checks = [server |-> "started", grpc_connection |-> grpc,
                       datastore |-> dsc, schema |-> sch],
           !.probes = (IF snap.conn # 0 THEN {"ReadSchema"} ELSE {})
                      \cup (IF snap.ds THEN {"Statistics"} ELSE {}),
           !.answers = [p \in (IF snap.conn # 0 THEN {"ReadSchema"} ELSE {})
                                 \cup (IF snap.ds THEN {"Statistics"} ELSE {})
                           |-> IF p = "ReadSchema" THEN schema ELSE stats]]

\* health.go:51-55 and 147: the error HealthCheck returns with the status.
HealthError(snap) == IF ~snap.started THEN "not started" ELSE "nil"

\* HealthCheck reading the fields without the read lock of health.go:41-48.
HealthCheck_NoLock(c) ==
    /\ pc[c] = "idle"
    /\ \E schema \in SchemaProbes(es.conn), stats \in StatsProbes :
          ret' = [NoRet EXCEPT !.op = "HealthCheck",
                               !.err = HealthError(HealthSnapshot),
                               !.health = HealthStatus(HealthSnapshot, schema, stats)]
    /\ UNCHANGED <<lim, burst, config, es, fw, timers, pc, call, connClosed,
                   dsClosed, launched, now>>

\* health.go:33-148 HealthCheck called through the API.
HealthCheck(c) ==
    /\ pc[c] = "idle"
    /\ es.mu = 0
    /\ \E schema \in SchemaProbes(es.conn), stats \in StatsProbes :
          ret' = [NoRet EXCEPT !.op = "HealthCheck",
                               !.err = HealthError(HealthSnapshot),
                               !.health = HealthStatus(HealthSnapshot, schema, stats)]
    /\ UNCHANGED <<lim, burst, config, es, fw, timers, pc, call, connClosed,
                   dsClosed, launched, now>>

\* health.go:176-178: the mux, path to handler.
Routes == [p \in {"/healthz", "/health"} |-> "healthCheckHandler"]

\* A handler answering 503 for every status but "healthy".
StatusCode_HealthyOnly(err, status) == IF status # "healthy" THEN 503 ELSE 200

\* health.go:157-163: the response code of healthCheckHandler.
StatusCode(err, status) == IF err # "nil" /\ status = "unhealthy" THEN 503 ELSE 200

\* The health HTTP server, while it serves (from healthhttp.Start in Start to
\* a completed Shutdown in Stop), accepts a request on one of its paths.
HandlerAccept(c, path) ==
    /\ pc[c] = "idle"
    /\ es.healthSrv
    /\ call' = [call EXCEPT ![c] = NewCall(path)]
    /\ pc' = [pc EXCEPT ![c] = "handler"]
    /\ ret' = NoRet
    /\ UNCHANGED <<lim, burst, config, es, fw, timers, connClosed, dsClosed,
                   launched, now>>

\* health.go:151-168 healthCheckHandler: HealthCheck, the code, the JSON body.
HandlerServe(c) ==
    /\ pc[c] = "handler"
    /\ Routes[call[c].op] = "healthCheckHandler"
    /\ es.mu = 0
    /\ \E schema \in SchemaProbes(es.conn), stats \in StatsProbes :
          LET h == HealthStatus(HealthSnapshot, schema, stats)
              e == HealthError(HealthSnapshot)
          IN ret' = [NoRet EXCEPT !.op = "GET", !.name = call[c].op, !.err = e,
                                  !.health = [h EXCEPT !.code = StatusCode(e, h.status)]]
    /\ call' = [call EXCEPT ![c] = NoCall]
    /\ pc' = [pc EXCEPT ![c] = "idle"]
    /\ UNCHANGED <<lim, burst, config, es, fw, timers, connClosed, dsClosed,
                   launched, now>>

\* The coordinator with its health surface: Start, Stop and restarts (no
\* edits of the schema files, no observers), HealthCheck and the HTTP handler.
InitH ==
    /\ InitCommon
    /\ lim = [starts |-> MaxStarts, timers |-> 0, observers |-> 0,
              tick |-> Debounce, horizon |-> Debounce, events |-> {}]
    /\ config \in Configs
    /\ fw = NoWatcher

NextH ==
    \/ \E c \in Callers :
          \/ StartBegin(c) \/ StartDial(c) \/ StartRollback(c) \/ StartFinish(c)
          \/ StopBegin(c) \/ StopWatcher(c) \/ StopWatcherClose(c)
          \/ StopConn(c) \/ StopFinish(c)
          \/ HealthCheck(c)
          \/ \E path \in DOMAIN Routes : HandlerAccept(c, path)
          \/ HandlerServe(c)
    \/ ServeExit
    \/ LoopExit

SpecH == InitH /\ [][NextH]_vars

\* HealthCheck as a function of what it reads: a started coordinator with
\* every combination of the references the code tests for nil (health.go:69,
\* 96, 121) and of configured schema files. New and Start leave none of the
\* references nil; the combinations are those HealthCheck has a branch for.
InitS ==
    /\ lim = [starts |-> 0, timers |-> 0, observers |-> 0,
              tick |-> 0, horizon |-> 0, events |-> {}]
    /\ config \in Configs
    /\ fw = NoWatcher
    /\ timers = [i \in TimerIds |-> NoTimer]
    /\ burst = NoBurst
    /\ pc = [t \in Threads |-> "idle"]
    /\ call = [t \in Threads |-> NoCall]
    /\ ret = NoRet
    /\ connClosed = [h \in Handles |-> 0]
    /\ dsClosed = 0
    /\ launched = 0
    /\ now = 0
    /\ \E conn \in {0, 1}, reloader \in {0, 1}, ds \in BOOLEAN :
          es = [NewServer EXCEPT !.started = TRUE, !.startTime = 0, !.conn = conn,
                                 !.reloader = reloader, !.datastore = ds]

NextS == \E c \in Callers : HealthCheck(c)

SpecS == InitS /\ [][NextS]_vars

\* --------------------------------------------------------------- reloader
\* A path as filepath sees it: absolute or not, and its components. The empty
\* string is the relative path without components.
NoPath == [abs |-> FALSE, comps |-> <<>>]
RelPath(comps) == [abs |-> FALSE, comps |-> comps]

\* The reference values of the manifests explored: none, a file of the
\* manifest's directory tree, a parent-directory escape, an absolute path.
LocalRef == RelPath(<<"sub", "..", "schema.zed">>)
EscapeRef == RelPath(<<"sub", "..", "..", "schema.zed">>)
AbsRef == [abs |-> TRUE, comps |-> <<"etc", "schema.zed">>]

\* The depth below the starting directory after walking comps from depth d;
\* -1 once a ".." has climbed above the starting directory.
RECURSIVE Climb(_, _)
Climb(comps, d) ==
    IF d < 0 \/ comps = <<>> THEN d
    ELSE IF Head(comps) = ".." THEN Climb(Tail(comps), d - 1)
    ELSE Climb(Tail(comps), d + 1)

\* A check that only rejects absolute paths.
IsLocal_AbsoluteOnly(path) == ~path.abs

\* filepath.IsLocal (reloader.go:82, 102, 118, 174, 188, 207, 223): not
\* empty, not absolute, and lexically inside the directory it is joined to.
IsLocal(path) ==
    /\ ~path.abs
    /\ path.comps # <<>>
    /\ Climb(path.comps, 0) >= 0

\* strings.TrimSpace(s) != "" for a reference value.
NonBlank(path) == path.abs \/ path.comps # <<>>

\* A configured file as it is found on disk. ext is the lower-cased extension;
\* text is the content of a plain-text file; for a manifest: whether
\* validationfile.DecodeValidationFile accepts it, whether yaml.Unmarshal
\* does, and its top-level keys "schema", "schemaFile" (the field the
\* structured decode fills SchemaFile from) and "schema_file".
PlainFile(text) ==
    [ext |-> ".zed", readable |-> TRUE, text |-> text, decodes |-> FALSE,
     yaml |-> FALSE, schema |-> "", schemaFile |-> NoPath, schema_file |-> NoPath]

Manifest(decodes, schema, camel, snake) ==
    [ext |-> ".yaml", readable |-> TRUE, text |-> "", decodes |-> decodes,
     yaml |-> TRUE, schema |-> schema, schemaFile |-> camel, schema_file |-> snake]

\* The files explored: two plain-text documents, an empty file, an unreadable
\* file, a manifest that is not YAML, and manifests with every combination of
\* keys.
DiskFiles ==
    {PlainFile("definition user {}"), PlainFile("definition document {}"),
     PlainFile(""), [PlainFile("") EXCEPT !.readable = FALSE],
     [Manifest(FALSE, "", NoPath, NoPath) EXCEPT !.yaml = FALSE]}
    \cup {Manifest(d, sc, camel, snake) :
             d \in BOOLEAN, sc \in {"", "definition inline {}"},
             camel \in {NoPath, LocalRef, EscapeRef},
             snake \in {NoPath, LocalRef, AbsRef}}

\* os.ReadFile of a referenced schema file: the content found at the path.
ReferencedText(path) ==
    IF IsLocal(path) THEN "definition referenced {}" ELSE "definition outside {}"

\* What resolving one file gives: the error or "nil", the parts added (none
\* or one), the referenced paths read.
Part(text) == [err |-> "nil", parts |-> <<text>>, refReads |-> <<>>]
NoPart(err) == [err |-> err, parts |-> <<>>, refReads |-> <<>>]

\* reloader.go:81-91, 101-110, 117-126 (173-182, 187-196, 206-215, 222-231):
\* the IsLocal check, then the read of the referenced file.
Referenced(ref) ==
    IF ~IsLocal(ref) THEN NoPart("not local")
    ELSE [err |-> "nil", parts |-> <<ReferencedText(ref)>>, refReads |-> <<ref>>]

\* reloader.go:61-130: one manifest in Reload's second loop. A manifest that
\* decodes and has neither schema nor reference adds nothing, without error.
ReloadManifest(f) ==
    IF ~f.readable THEN NoPart("read failed")
    ELSE IF ~f.decodes
    THEN IF ~f.yaml THEN NoPart("parse failed")
         ELSE IF f.schema # "" THEN Part(f.schema)
         ELSE IF NonBlank(f.schema_file) THEN Referenced(f.schema_file)
         ELSE NoPart("parse failed")
    ELSE IF f.schema # "" THEN Part(f.schema)
    ELSE IF f.schemaFile # NoPath THEN Referenced(f.schemaFile)
    ELSE IF f.yaml /\ NonBlank(f.schema_file) THEN Referenced(f.schema_file)
    ELSE [err |-> "nil", parts |-> <<>>, refReads |-> <<>>]

IsManifest(f) == f.ext \in {".yaml", ".yml"}

\* reloader.go:44-56: the first loop over r.files. Plain files are read and
\* appended at once; manifests are put aside in yamlFiles.
RECURSIVE PlainLoop(_, _)
PlainLoop(files, acc) ==
    IF files = <<>> \/ acc.err # "nil" THEN acc
    ELSE LET f == Head(files)
         IN PlainLoop(Tail(files),
                IF IsManifest(f) THEN [acc EXCEPT !.yamlFiles = Append(@, f)]
                ELSE IF ~f.readable THEN [acc EXCEPT !.err = "read failed"]
                ELSE [acc EXCEPT !.parts = Append(@, f.text)])

\* reloader.go:59-132: the second loop, over yamlFiles.
RECURSIVE YamlLoop(_, _)
YamlLoop(yamlFiles, acc) ==
    IF yamlFiles = <<>> \/ acc.err # "nil" THEN acc
    ELSE LET r == ReloadManifest(Head(yamlFiles))
         IN YamlLoop(Tail(yamlFiles),
                [acc EXCEPT !.err = r.err, !.parts = @ \o r.parts,
                            !.refReads = @ \o r.refReads])

\* strings.Join(parts, sep).
RECURSIVE Join(_, _)
Join(parts, sep) ==
    IF parts = <<>> THEN ""
    ELSE IF Len(parts) = 1 THEN parts[1]
    ELSE parts[1] \o sep \o Join(Tail(parts), sep)

\* Reload with a failed WriteSchema call repeated once.
Reload_Retry(files, writeOK) ==
    IF Len(files) = 0
    THEN [NoSchema EXCEPT !.text = "no schema files configured"]
    ELSE
    LET first == PlainLoop(files, [err |-> "nil", parts |-> <<>>,
                                   yamlFiles |-> <<>>, refReads |-> <<>>])
        acc == YamlLoop(first.yamlFiles, first)
        combinedSchema == Join(acc.parts, "\n\n")
    IN IF acc.err # "nil"
       THEN [NoSchema EXCEPT !.text = acc.err, !.refReads = acc.refReads]
       ELSE IF combinedSchema = ""
       THEN [NoSchema EXCEPT !.text = "no schema content found in files",
                             !.refReads = acc.refReads]
       ELSE [text |-> IF writeOK THEN "nil" ELSE "write failed",
             submitted |-> IF writeOK THEN <<combinedSchema>>
                           ELSE <<combinedSchema, combinedSchema>>,
             refReads |-> acc.refReads]

\* reloader.go:35-147 Reload over r.files, given whether WriteSchema succeeds.
Reload(files, writeOK) ==
    IF Len(files) = 0
    THEN [NoSchema EXCEPT !.text = "no schema files configured"]
    ELSE
    LET first == PlainLoop(files, [err |-> "nil", parts |-> <<>>,
                                   yamlFiles |-> <<>>, refReads |-> <<>>])
        acc == YamlLoop(first.yamlFiles, first)
        combinedSchema == Join(acc.parts, "\n\n")
    IN IF acc.err # "nil"
       THEN [NoSchema EXCEPT !.text = acc.err, !.refReads = acc.refReads]
       ELSE IF combinedSchema = ""
       THEN [NoSchema EXCEPT !.text = "no schema content found in files",
                             !.refReads = acc.refReads]
       ELSE [text |-> IF writeOK THEN "nil" ELSE "write failed",
             submitted |-> <<combinedSchema>>, refReads |-> acc.refReads]

\* reloader.go:150-251 ReadSchemaFile: the part one file resolves to.
ReadSchemaFile(f) ==
    IF ~f.readable THEN NoPart("read failed")
    ELSE IF ~IsManifest(f) THEN Part(f.text)
    ELSE IF ~f.decodes
    THEN IF ~f.yaml THEN NoPart("parse failed")
         ELSE IF f.schema # "" THEN Part(f.schema)
         ELSE IF NonBlank(f.schema_file) THEN Referenced(f.schema_file)
         ELSE IF NonBlank(f.schemaFile) THEN Referenced(f.schemaFile)
         ELSE NoPart("parse failed")
    ELSE IF f.schema # "" THEN Part(f.schema)
    ELSE IF f.schemaFile # NoPath THEN Referenced(f.schemaFile)
    ELSE IF f.yaml /\ NonBlank(f.schema_file) THEN Referenced(f.schema_file)
    ELSE NoPart("no schema found in YAML file")

\* A caller runs reloader.Reload on the configured list.
ReloadCall(c) ==
    /\ pc[c] = "idle"
    /\ \E writeOK \in BOOLEAN :
          LET r == Reload(config.SchemaFiles, writeOK)
          IN ret' = [NoRet EXCEPT !.op = "Reload",
                        !.err = r.text,
                        !.schema = [r EXCEPT !.text = ""]]
    /\ UNCHANGED <<lim, burst, config, es, fw, timers, pc, call, connClosed,
                   dsClosed, launched, now>>

\* A caller runs ReadSchemaFile on the i-th configured file.
ReadSchemaFileCall(c, i) ==
    /\ pc[c] = "idle"
    /\ i \in DOMAIN config.SchemaFiles
    /\ LET r == ReadSchemaFile(config.SchemaFiles[i])
       IN ret' = [NoRet EXCEPT !.op = "ReadSchemaFile", !.handle = i,
                     !.err = r.err,
                     !.schema = [NoSchema EXCEPT
                                    !.text = IF r.err = "nil" THEN r.parts[1] ELSE "",
                                    !.refReads = r.refReads]]
    /\ UNCHANGED <<lim, burst, config, es, fw, timers, pc, call, connClosed,
                   dsClosed, launched, now>>

\* Between two calls a configured file is rewritten on disk: its path stays
\* in the list, its content is that of another plain-text file.
WriteFile(i, f) ==
    /\ i \in DOMAIN config.SchemaFiles
    /\ ~IsManifest(config.SchemaFiles[i])
    /\ f \in DiskFiles /\ ~IsManifest(f) /\ f.readable
    /\ f # config.SchemaFiles[i]
    /\ config' = [config EXCEPT !.SchemaFiles[i] = f]
    /\ ret' = NoRet
    /\ UNCHANGED <<lim, burst, es, fw, timers, pc, call, connClosed, dsClosed,
                   launched, now>>

\* Lists of at most MaxFiles files.
FileLists == UNION {[1..n -> DiskFiles] : n \in 0..MaxFiles}

\* A SchemaReloader constructed over a list of files (reloader.go:27-32),
\* and the package function ReadSchemaFile applied to the files of the list.
InitR ==
    /\ InitCommon
    /\ lim = [starts |-> 0, timers |-> 0, observers |-> 0,
              tick |-> 0, horizon |-> 0, events |-> {}]
    /\ \E files \in FileLists :
          config = [SchemaFiles |-> files, HealthCheckEnabled |-> FALSE]
    /\ fw = NoWatcher

NextR ==
    \/ \E c \in Callers :
          \/ ReloadCall(c)
          \/ \E i \in 1..MaxFiles : ReadSchemaFileCall(c, i)
    \/ \E i \in 1..MaxFiles, f \in DiskFiles : WriteFile(i, f)

SpecR == InitR /\ [][NextR]_vars

\* ---------------------------------------------------------- dialWithRetry
\* server.go:313-317, durations in milliseconds.
maxRetries == 10
initialBackoff == 10
maxBackoff == 500

\* The backoff doubled without the cap of server.go:337-339.
NextBackoff_NoCap(backoff) == backoff * 2

\* server.go:336-339: the backoff for the next wait.
NextBackoff(backoff) ==
    IF backoff * 2 > maxBackoff THEN maxBackoff ELSE backoff * 2

\* What dialWithRetry hands back to Start: the error (or "nil"), the handle,
\* and the attempts and waits it made.
DialResult(c, conn, err, did) ==
    [NoRet EXCEPT !.op = "dialWithRetry", !.err = err, !.handle = conn, !.did = did]

\* server.go:139-155 once dialWithRetry has returned: on an error cancel (then
\* wait, StartRollback); on success bind the handle, create the reloader and
\* run the initial reload, whose failure is only logged.
DialReturns(c, conn, err, did) ==
    /\ ret' = DialResult(c, conn, err, did)
    /\ IF err # "nil"
       THEN /\ es' = [es EXCEPT !.cancelled = TRUE]
            /\ call' = [call EXCEPT ![c] = did]
            /\ pc' = [pc EXCEPT ![c] = "start_rollback"]
       ELSE \E o \in ReloadOutcomes(config.SchemaFiles, connClosed[conn] = 0) :
            /\ es' = [es EXCEPT !.conn = conn, !.reloader = conn]
            /\ call' = [call EXCEPT ![c] =
                           [did EXCEPT !.outcome =
                               IF Len(config.SchemaFiles) > 0 THEN o ELSE @]]
            /\ pc' = [pc EXCEPT ![c] = "start_watch"]

\* server.go:319-322: lastErr, backoff := initialBackoff, i := 0.
DialEnter(c) ==
    /\ pc[c] = "start_dial"
    /\ call' = [call EXCEPT ![c].i = 0, ![c].backoff = initialBackoff]
    /\ pc' = [pc EXCEPT ![c] = "dial_attempt"]
    /\ ret' = NoRet
    /\ UNCHANGED <<lim, burst, config, es, fw, timers, connClosed, dsClosed, launched, now>>

\* server.go:322-327: one GRPCDialContext call. A nil error returns the
\* handle at once; an error leads to the select of line 329.
DialAttempt(c) ==
    /\ pc[c] = "dial_attempt"
    /\ call[c].i < maxRetries
    /\ UNCHANGED <<lim, burst, config, fw, timers, connClosed, dsClosed, launched, now>>
    /\ LET did == [call[c] EXCEPT !.attempts = @ + 1]
       IN \/ DialReturns(c, launched, "nil", did)
          \/ /\ call' = [call EXCEPT ![c] = did]
             /\ pc' = [pc EXCEPT ![c] = "dial_wait"]
             /\ ret' = NoRet
             /\ UNCHANGED es

\* server.go:329-341: the select after a failed attempt. A cancelled context
\* of the caller, or a cancelled es.ctx, can be taken and returns its error;
\* the timer case completes the wait, doubles the backoff up to the cap and
\* goes round the loop, which ends with line 343 after maxRetries rounds.
DialWait(c) ==
    /\ pc[c] = "dial_wait"
    /\ UNCHANGED <<lim, burst, config, fw, timers, connClosed, dsClosed, launched, now>>
    /\ \/ /\ call[c].ctxDone
          /\ DialReturns(c, 0, "ctx", call[c])
       \/ /\ es.cancelled
          /\ DialReturns(c, 0, "es.ctx", call[c])
       \/ LET did == [call[c] EXCEPT !.waits = Append(@, call[c].backoff),
                                     !.backoff = NextBackoff(@),
                                     !.i = @ + 1]
          IN IF did.i < maxRetries
             THEN /\ call' = [call EXCEPT ![c] = did]
                  /\ pc' = [pc EXCEPT ![c] = "dial_attempt"]
                  /\ ret' = NoRet
                  /\ UNCHANGED es
             ELSE DialReturns(c, 0, "failed after retries", did)

\* The caller cancels the context it passed to Start.
CtxCancel(c) ==
    /\ pc[c] \in {"dial_attempt", "dial_wait"}
    /\ ~call[c].ctxDone
    /\ call' = [call EXCEPT ![c].ctxDone = TRUE]
    /\ ret' = NoRet
    /\ UNCHANGED <<lim, burst, config, es, fw, timers, pc, connClosed, dsClosed, launched, now>>

\* The coordinator with Start's dial loop step by step: Start, Stop and
\* restarts, no edits of the schema files, no observers.
InitD ==
    /\ InitCommon
    /\ lim = [starts |-> MaxStarts, timers |-> 0, observers |-> 0,
              tick |-> Debounce, horizon |-> Debounce, events |-> {}]
    /\ config \in Configs
    /\ fw = NoWatcher

NextD ==
    \/ \E c \in Callers :
          \/ StartBegin(c) \/ DialEnter(c) \/ DialAttempt(c) \/ DialWait(c)
          \/ CtxCancel(c)
          \/ StartRollback(c) \/ StartFinish(c)
          \/ StopBegin(c) \/ StopWatcher(c) \/ StopWatcherClose(c)
          \/ StopConn(c) \/ StopFinish(c)
    \/ ServeExit
    \/ LoopExit

SpecD == InitD /\ [][NextD]_vars

\* ================================================================== claims
\* The coordinator's own state: everything Start and Stop can change.
coordinator == <<es, fw, timers, connClosed, dsClosed, launched>>

\* The transitions the data model lists, with Start allowed from Stopped.
ListedTransitions ==
    {<<"Created", "Starting">>, <<"Starting", "Running">>,
     <<"Running", "Stopping">>, <<"Stopping", "Stopped">>,
     <<"Stopped", "Starting">>}

\* A Start that fails on dialing gives up the lock with started still false.
FailedStartTransitions == {<<"Starting", "Created">>, <<"Starting", "Stopped">>}

\* Stop in Created or Stopped changes nothing and returns nil; Start in
\* Running returns an error and changes nothing (in Starting and Stopping a
\* caller waits for es.mu and meets one of the other three states).
QuietCalls ==
    /\ ret'.op = "Stop" /\ ServiceState \in {"Created", "Stopped"}
          => ret'.err = "nil" /\ UNCHANGED coordinator
    /\ ret'.op = "Start" /\ ServiceState = "Running"
          => ret'.err # "nil" /\ UNCHANGED coordinator

\* C1 as stated: the state changes only along Created -> Starting -> Running
\* (Start) and Running -> Stopping -> Stopped (Stop), a Start from Stopped
\* included; Stop in Created or Stopped changes nothing; Start in Running
\* returns an error and changes nothing.
C1_AsStated ==
    [][/\ ServiceState' # ServiceState
              => <<ServiceState, ServiceState'>> \in ListedTransitions
       /\ QuietCalls]_vars

\* C1, amended: the state changes only along the listed transitions or, when
\* Start fails on dialing, from Starting back to the state Start was called in
\* (Created or Stopped); Stop in Created or Stopped changes nothing; Start in
\* Running returns an error and changes nothing.
C1_Transitions ==
    [][/\ ServiceState' # ServiceState
              => <<ServiceState, ServiceState'>>
                    \in ListedTransitions \cup FailedStartTransitions
       /\ QuietCalls]_vars

\* A Start after a full Start/Stop cycle has failed on dialing.
C1_Witness == ret.op = "Start" /\ ret.err = "dial" /\ ServiceState = "Stopped"

\* C3: a Start made while Running returns "already started" and changes
\* nothing of the coordinator (handle, reloader, watcher, observers, start
\* time), launches no serve task, and Client() would return the same handle;
\* of racing Starts only one is past the started check and at most one serve
\* task is alive.
C3_StartWhileRunning ==
    [][/\ ret'.op = "Start" /\ es.started /\ es.mu = 0
              => /\ ret'.err = "already started"
                 /\ UNCHANGED <<coordinator, pc, call>>
       /\ Cardinality({c \in Callers : call'[c].op = "Start"}) <= 1
       /\ es'.wg <= 1
       /\ launched' > launched => ~es.started]_vars

\* A Start has been rejected while the coordinator was Running with a handle.
C3_Witness ==
    ret.op = "Start" /\ ret.err = "already started" /\ es.started /\ es.conn # 0

\* The six shutdown steps of a Stop that found the coordinator started.
StopSteps(w, h) ==
    <<"health">> \o (IF w # 0 THEN <<"watcher">> ELSE <<>>)
        \o (IF h # 0 THEN <<"conn">> ELSE <<>>) \o <<"cancel", "wait", "datastore">>

\* C4: every Stop returns nil; a Stop that finds the coordinator not started
\* performs no step and changes nothing (no second close of the connection or
\* of the datastore), a Stop from Running performs the shutdown steps.
C4_StopIdempotent ==
    [][ret'.op = "Stop"
          => /\ ret'.err = "nil"
             /\ IF es.started
                THEN /\ ret'.did.log = StopSteps(es.watcher, es.conn)
                     /\ dsClosed' = dsClosed + 1
                     /\ ~es'.started
                ELSE /\ ret'.did.log = <<>>
                     /\ UNCHANGED coordinator
             /\ \A h \in Handles : connClosed'[h] <= 1]_vars

\* A Stop after a completed Stop has returned without doing anything.
C4_Witness == ret.op = "Stop" /\ ret.did.log = <<>> /\ dsClosed = 1 /\ es.conn # 0

\* C5: Client() returns the handle exactly when the coordinator is started and
\* a handle is present, otherwise an error and no handle; a returned handle has
\* not been closed by the coordinator.
C5_Client ==
    [][ret'.op = "Client"
          => IF es.started /\ es.conn # 0
             THEN /\ ret'.err = "nil"
                  /\ ret'.handle = es.conn
                  /\ connClosed'[ret'.handle] = 0
             ELSE ret'.err # "nil" /\ ret'.handle = 0]_vars

\* Client() has returned the handle of a second successful Start.
C5_Witness == ret.op = "Client" /\ ret.err = "nil" /\ ret.handle = 2 /\ connClosed[1] = 1

\* C10: a ReloadSchema call that finds the coordinator not started returns
\* "not started" having read nothing, submitted nothing and invoked no
\* observer, and changes no coordinator state; no ReloadSchema call gets past
\* the check while the coordinator is not started.
C10_ReloadNotStarted ==
    [][/\ ret'.op = "ReloadSchema" /\ call' = call /\ ~es.started
              => /\ ret'.err = "not started"
                 /\ ret'.did = NewCall("ReloadSchema")
                 /\ UNCHANGED coordinator
       /\ \A t \in Threads :
              call[t].op # "ReloadSchema" /\ call'[t].op = "ReloadSchema"
                  => es.started]_vars

\* ReloadSchema has been refused after a Stop, with a reloader still bound.
C10_Witness ==
    ret.op = "ReloadSchema" /\ ret.err = "not started" /\ dsClosed > 0 /\ es.reloader # 0

\* Stop (server.go:212) holds es.mu and waits for fw.mu, which the debounce
\* callback holds (watcher.go:168-169) until its trigger, ReloadSchema, has
\* passed the read lock of server.go:272 or 290: neither can go on.
WaitCycle ==
    /\ es.mu \in Callers
    /\ pc[es.mu] = "stop_watcher"
    /\ es.watcher = fw.gen
    /\ fw.mu \in TimerIds
    /\ pc[fw.mu] \in {"trigger", "rs_copy"}

\* C2: a Stop invoked while Running always terminates (returns nil, state
\* Stopped) under every interleaving with watcher-triggered reloads: it is
\* never in a state in which it waits for a lock that will not be released.
C2_StopTerminates == ~WaitCycle

\* C9: every ReloadSchema call that performs a reload invokes each observer
\* registered by the time the reload completed: a call whose reload has
\* completed with observers registered is never held back for good before it
\* has copied the observer list.
C9_ObserversInvoked ==
    \A t \in Threads :
        pc[t] = "rs_copy" /\ call[t].regAtDone > 0 => ~WaitCycle

\* C6: a burst of edits recorded within one debounce interval of each other
\* gets the trigger invoked once, by the timer that expires one debounce
\* interval after the last edit of the burst.
C6_OncePerBurst ==
    /\ burst.trigs <= 1
    /\ burst.trigs = 1 => burst.by = burst.last + Debounce

\* C7: once the watcher's Stop() has returned no trigger is running and none
\* is invoked, whatever timers had fired before and whatever events arrive.
C7_NoTriggerAfterStop ==
    [][fw.returned
          => /\ \A t \in TimerIds : pc[t] # "trigger" /\ pc'[t] # "trigger"
             /\ burst'.trigs = burst.trigs
             /\ fw'.returned]_vars

\* Stop() has returned while the callback of a fired timer is still to run.
C7_Witness ==
    /\ fw.returned
    /\ \E t \in TimerIds : timers[t].state = "fired" /\ pc[t] = "lock"

\* C8: an event whose path is not one of the configured paths, or whose
\* operation is neither write nor create, records no pending change, arms no
\* timer and starts no trigger; only configured paths are ever pending.
C8_UnwatchedIgnored ==
    [][/\ ret'.op = "event"
          /\ ~(ret'.name \in fw.files /\ ret'.bits \cap {"Write", "Create"} # {})
              => UNCHANGED <<fw, timers, burst, pc>>
       /\ DOMAIN fw'.pending \subseteq fw.files]_vars

\* A write to a sibling file has arrived through the directory watch of a
\* running, not stopped watcher.
C8_Witness ==
    /\ ret.op = "event" /\ ret.name = "sib" /\ "Write" \in ret.bits
    /\ "dir" \in fw.targets /\ fw.loop = "running" /\ ~fw.stopped

\* C11: a ReloadSchema call on a started coordinator with no schema files
\* returns "no schema files configured" at once, like the not-started and
\* no-reloader failures: without invoking any observer.
C11_NoFilesImmediate ==
    ret.op = "ReloadSchema" /\ ret.err = "no schema files configured"
        => ret.did.notified = <<>>

\* Start is past the dial (server.go:145) and returns in this step.
StartCompletes == \E c \in Callers : pc[c] = "start_watch" /\ pc'[c] = "idle"

\* The step has created and started a watcher (server.go:169-171).
WatcherStarted == fw'.gen = fw.gen + 1 /\ fw'.loop = "running"

\* What C12 says of a returning Start, but for the watcher reference.
StartTolerant ==
    /\ ret'.op = "Start" /\ ret'.err = "nil"
    /\ ServiceState' = "Running"
    /\ es'.conn # 0 /\ es'.reloader # 0
    /\ WatcherStarted => es'.watcher = fw'.gen
    /\ es'.healthSrv => config.HealthCheckEnabled

\* C12 as stated: once the connection is established Start returns nil and the
\* state is Running whatever the initial reload, the watcher and the health
\* server did; when no watcher could be started no watcher is bound, and the
\* health server is present only if it is enabled.
C12_AsStated ==
    [][StartCompletes => StartTolerant /\ (~WatcherStarted => es'.watcher = 0)]_vars

\* C12, amended: as above, but when no watcher could be started the watcher
\* reference keeps its value: nil on a first Start, the stopped watcher of the
\* previous Start on a Start after Stop.
C12_StartTolerant ==
    [][StartCompletes
          => StartTolerant /\ (~WatcherStarted => es'.watcher = es.watcher)]_vars

\* A Start has returned nil although the initial reload failed and no watcher
\* could be started.
C12_Witness ==
    /\ ret.op = "Start" /\ ret.err = "nil" /\ ret.did.outcome = "reload failed"
    /\ Len(config.SchemaFiles) > 0 /\ es.watcher = 0 /\ es.started

\* Start returns in this step after a failed dial (server.go:140-143).
StartAborts == \E c \in Callers : pc[c] = "start_rollback" /\ pc'[c] = "idle"

\* What C13 says of a Start that failed on dialing, but for the bound fields.
StartAborted ==
    /\ ret'.op = "Start" /\ ret'.err = "dial"
    /\ es'.cancelled /\ es'.wg = 0
    /\ ~es'.started /\ ServiceState' # "Running"

\* C13 as stated: a Start whose dial fails returns the dial error after the
\* serve task has been cancelled and has exited; the state is not Running and
\* no connection handle, reloader or watcher is bound.
C13_AsStated ==
    [][StartAborts
          => /\ StartAborted
             /\ es'.conn = 0 /\ es'.reloader = 0 /\ es'.watcher = 0]_vars

\* C13, amended: as above, but the fields may still hold what a previous
\* successful Start bound and Stop shut down: a closed handle, the reloader
\* made for it, a stopped watcher; nothing live is bound.
C13_DialFailure ==
    [][StartAborts
          => /\ StartAborted
             /\ es'.conn # 0 => connClosed'[es'.conn] = 1
             /\ es'.reloader = es'.conn
             /\ es'.watcher # 0 =>
                   /\ dsClosed' > 0
                   /\ es'.watcher = fw'.gen => fw'.stopped /\ fw'.loop = "exited"]_vars

\* A Start after a full Start/Stop cycle has failed on dialing, the closed
\* handle of the first Start still bound.
C13_Witness ==
    ret.op = "Start" /\ ret.err = "dial" /\ es.conn # 0 /\ es.wg = 0 /\ es.cancelled

\* C14: over every sequence of Start and Stop calls no connection handle is
\* closed more than once, and the datastore is closed at most once.
C14_ClosedOnce ==
    /\ \A h \in Handles : connClosed[h] <= 1
    /\ dsClosed <= 1

\* C15: every trigger the watcher fires on a Running coordinator runs
\* ReloadSchema to its end: a watcher-triggered call that has passed the
\* started check and completed its reload, with observers registered, always
\* gets to copy the observer list and invoke each observer with the outcome.
C15_TriggerReachesObservers ==
    \A t \in TimerIds :
        /\ pc[t] = "rs_copy"
        /\ call[t].op = "ReloadSchema"
        /\ call[t].regAtDone > 0
        => ~(fw.mu = t /\ WaitCycle)

\* C16: whenever the coordinator is not Running, before the first Start and
\* after any Stop, HealthCheck returns an error together with status
\* "unhealthy" and check "server" = "not_started", and issues no probe.
C16_NotStartedUnhealthy ==
    [][ret'.op = "HealthCheck" /\ ServiceState # "Running"
          => /\ ret'.err = "not started"
             /\ ret'.health.status = "unhealthy"
             /\ ret'.health.checks = [server |-> "not_started"]
             /\ ret'.health.probes = {}]_vars

\* HealthCheck has answered after a Stop that followed a successful Start.
C16_Witness ==
    /\ ret.op = "HealthCheck" /\ ret.err = "not started"
    /\ ServiceState = "Stopped" /\ es.conn # 0

\* C17: the health HTTP handler answers 503 exactly when the status HealthCheck
\* computed is "unhealthy", and 200 for "healthy" and "degraded"; the two
\* paths are served by the same handler.
C17_StatusCodes ==
    /\ ret.op = "GET"
          => /\ ret.health.status \in {"healthy", "degraded", "unhealthy"}
             /\ ret.health.code = 503 <=> ret.health.status = "unhealthy"
             /\ ret.health.code = 200 <=> ret.health.status \in {"healthy", "degraded"}
    /\ Routes["/healthz"] = Routes["/health"]

\* The alias path has been answered with a degraded status and 200.
C17_Witness ==
    /\ ret.op = "GET" /\ ret.name = "/health"
    /\ ret.health.status = "degraded" /\ ret.health.code = 200

\* Either path has been answered with 503.
C17_Unavailable == ret.op = "GET" /\ ret.health.code = 503

\* The part one configured file contributes to Reload's document.
FilePart(f) == IF IsManifest(f) THEN ReloadManifest(f).parts ELSE <<f.text>>

\* The per-file parts of a list, in the order of the list.
RECURSIVE PartsInOrder(_)
PartsInOrder(files) ==
    IF files = <<>> THEN <<>> ELSE FilePart(Head(files)) \o PartsInOrder(Tail(files))

\* C18: whatever Reload submits is the per-file parts joined by a blank line
\* in the order the files were configured, also for lists mixing plain-text
\* files and manifests.
C18_ConfiguredOrder ==
    ret.op = "Reload" /\ ret.schema.submitted # <<>>
        => ret.schema.submitted = <<Join(PartsInOrder(config.SchemaFiles), "\n\n")>>

\* The manifests of a list that carry a reference (under either key) that is
\* absolute or climbs out of the manifest's directory.
HasBadRef(f) ==
    /\ IsManifest(f) /\ f.readable /\ f.yaml
    /\ \/ NonBlank(f.schemaFile) /\ (f.schemaFile.abs \/ Climb(f.schemaFile.comps, 0) < 0)
       \/ NonBlank(f.schema_file) /\ (f.schema_file.abs \/ Climb(f.schema_file.comps, 0) < 0)

\* The reference a manifest without inline schema is resolved through, by the
\* structured decode or by the fallback decode of a failed structured decode.
ConsultedRef(f, reload) ==
    IF f.schema # "" THEN NoPath
    ELSE IF f.decodes THEN (IF f.schemaFile # NoPath THEN f.schemaFile ELSE f.schema_file)
    ELSE IF NonBlank(f.schema_file) THEN f.schema_file
    ELSE IF reload THEN NoPath ELSE f.schemaFile

BadPath(path) == NonBlank(path) /\ (path.abs \/ Climb(path.comps, 0) < 0)

\* No path read as a referenced file is absolute or outside the directory.
NoBadRead == \A i \in DOMAIN ret.schema.refReads : ~BadPath(ret.schema.refReads[i])

\* C19 as stated: any manifest carrying an absolute or escaping reference
\* makes Reload and ReadSchemaFile fail, without a read of the referenced
\* file and without a submit.
C19_AsStated ==
    /\ ret.op = "Reload" /\ (\E i \in DOMAIN config.SchemaFiles : HasBadRef(config.SchemaFiles[i]))
          => ret.err # "nil" /\ ret.schema.submitted = <<>> /\ NoBadRead
    /\ ret.op = "ReadSchemaFile" /\ HasBadRef(config.SchemaFiles[ret.handle])
          => ret.err # "nil" /\ NoBadRead

\* C19: a manifest resolved through a reference that is absolute or leaves
\* the manifest's directory makes Reload and ReadSchemaFile fail, on the
\* structured and on the fallback decode path; nothing is submitted, and no
\* absolute or escaping path is ever read, whatever the call returns.
C19_BadRefRejected ==
    /\ ret.op = "Reload"
          => /\ NoBadRead
             /\ (\E i \in DOMAIN config.SchemaFiles :
                     /\ IsManifest(config.SchemaFiles[i])
                     /\ config.SchemaFiles[i].readable /\ config.SchemaFiles[i].yaml
                     /\ BadPath(ConsultedRef(config.SchemaFiles[i], TRUE)))
                  => ret.err # "nil" /\ ret.schema.submitted = <<>>
    /\ ret.op = "ReadSchemaFile"
          => /\ NoBadRead
             /\ LET f == config.SchemaFiles[ret.handle]
                IN IsManifest(f) /\ f.readable /\ f.yaml /\ BadPath(ConsultedRef(f, FALSE))
                      => ret.err = "not local"

\* Reload has rejected an escaping reference met on the fallback path of a
\* manifest that decodes, after another file had supplied content.
C19_Witness ==
    /\ ret.op = "Reload" /\ ret.err = "not local"
    /\ Len(config.SchemaFiles) = 2
    /\ ~IsManifest(config.SchemaFiles[1])
    /\ config.SchemaFiles[2].decodes
    /\ config.SchemaFiles[2].schemaFile = EscapeRef

\* A manifest with neither a non-empty inline schema nor a reference: nothing
\* usable, whichever decode looks at it.
Unusable(f) ==
    /\ IsManifest(f) /\ f.readable
    /\ f.schema = "" /\ ~NonBlank(f.schemaFile) /\ ~NonBlank(f.schema_file)

\* C20: a configured manifest that yields nothing usable makes Reload fail
\* with an error, also when other configured files supply content, and
\* nothing is submitted.
C20_UnusableManifestFails ==
    ret.op = "Reload" /\ (\E i \in DOMAIN config.SchemaFiles : Unusable(config.SchemaFiles[i]))
        => ret.err # "nil" /\ ret.schema.submitted = <<>>

\* A file that resolves, without error, to no text at all: an empty plain-text
\* file, or a manifest that contributes an empty part or none.
ResolvesEmpty(f) ==
    IF IsManifest(f)
    THEN ReloadManifest(f).err = "nil" /\ ReloadManifest(f).parts \in {<<>>, <<"">>}
    ELSE f.readable /\ f.text = ""

\* C21: whenever every configured file (one or more) resolves to empty text,
\* Reload fails with the "no schema content" error and submits nothing.
C21_NoContentFails ==
    /\ ret.op = "Reload"
    /\ Len(config.SchemaFiles) >= 1
    /\ \A i \in DOMAIN config.SchemaFiles : ResolvesEmpty(config.SchemaFiles[i])
    => ret.err = "no schema content found in files" /\ ret.schema.submitted = <<>>

\* C22: the watcher's Stop() is idempotent. Whenever a Stop() returns, after
\* a Start or without one, for the first time or again, the watcher is stopped
\* with no pending change, no timer and no running loop; a stopped watcher
\* stays so; and a Stop() that waits for watchLoop waits for a loop that has
\* been told to exit.
C22_StopIdempotent ==
    [][/\ ret'.op = "watcher.Stop"
             => /\ fw'.stopped /\ fw'.pending = <<>> /\ fw'.timer = 0
                /\ fw'.loop # "running"
       /\ fw.stopped => fw'.stopped /\ fw'.pending = <<>> /\ fw'.timer = 0
       /\ \A c \in Callers :
             pc'[c] = "w_wait" => fw'.loop # "running" \/ fw'.cancelled \/ fw'.closed
       /\ fw'.mu # 0 => pc'[fw'.mu] = "trigger"]_vars

\* A Stop() has returned and another one, on a watcher that was never
\* started, has passed its locked part and the close.
C22_Witness ==
    /\ fw.returned /\ fw.loop = "none"
    /\ \E c \in Callers : pc[c] = "w_wait"

\* C23: for a started coordinator with no source files, a connection probe
\* answered "not found" is recorded as "healthy (no schema defined)" and does
\* not lower the status (healthy when the datastore probe passes); every other
\* probe failure, and every probe failure with source files configured, gives
\* an error check and the status degraded.
C23_NotFoundIsHealthy ==
    ret.op = "HealthCheck" /\ ret.err = "nil" /\ "ReadSchema" \in ret.health.probes
        => LET a == ret.health.answers["ReadSchema"]
               noFiles == Len(config.SchemaFiles) = 0
           IN /\ a = "NotFound" /\ noFiles
                    => /\ ret.health.checks.grpc_connection = "healthy (no schema defined)"
                       /\ ret.health.answers["Statistics"] = "ok"
                             => ret.health.status = "healthy"
              /\ a = "error" \/ (a = "NotFound" /\ ~noFiles)
                    => /\ ret.health.checks.grpc_connection = "error"
                       /\ ret.health.status = "degraded"

\* No source files, the probe answered "not found", the status is healthy.
C23_Witness ==
    /\ ret.op = "HealthCheck" /\ ret.err = "nil" /\ Len(config.SchemaFiles) = 0
    /\ ret.health.checks.grpc_connection = "healthy (no schema defined)"
    /\ ret.health.status = "healthy"

\* C24: while the RPC of a reload is in flight, started manually or by the
\* watcher's trigger, no Stop() is held up by a lock that is kept across that
\* RPC (and Client() and ReloadSchema are not held up behind such a Stop).
C24_NotBlockedByRPC ==
    \A t \in Threads :
        pc[t] = "rs_reload"
            => ~\E c \in Callers :
                   /\ pc[c] = "stop_watcher" /\ es.mu = c
                   /\ es.watcher # 0 /\ es.watcher = fw.gen
                   /\ fw.mu = t

\* C25: the trigger is never invoked earlier than one full debounce interval
\* after the most recent edit the watcher has recorded, and at most once per
\* quiet period, also when a timer expires at the moment a new edit is recorded.
C25_NeverEarly ==
    [][burst'.trigs > burst.trigs
          => /\ now >= burst.last + Debounce
             /\ burst'.trigs = 1]_vars

IsPrefix(a, b) == Len(a) <= Len(b) /\ SubSeq(b, 1, Len(a)) = a

\* C26: a Stop that runs from Running performs the shutdown steps in the
\* order health surface, watcher, connection, cancel, wait, datastore: every
\* step it takes extends the steps done so far along that order, it returns
\* only with all of them done (also when the health shutdown failed and left
\* the server reference in place), and the datastore is closed only after the
\* watcher was stopped, the connection closed and the serve task gone.
C26_StopOrder ==
    [][/\ \A c \in Callers :
             call[c].op = "Stop"
                => LET steps == StopSteps(es.watcher, es.conn)
                   IN \/ /\ call'[c].op = "Stop"
                         /\ IsPrefix(call[c].log, call'[c].log)
                         /\ IsPrefix(call'[c].log, steps)
                      \/ /\ call'[c] = NoCall
                         /\ ret'.op = "Stop"
                         /\ IsPrefix(call[c].log, ret'.did.log)
                         /\ ret'.did.log = steps
       /\ dsClosed' # dsClosed
             => /\ es.wg = 0 /\ es.cancelled
                /\ es.conn # 0 => connClosed[es.conn] = 1
                /\ es.watcher # 0 /\ es.watcher = fw.gen
                      => fw.stopped /\ fw.loop # "running"]_vars

\* A Stop has returned with every step done although the shutdown of the
\* health server failed (the reference is still in place).
C26_Witness ==
    /\ ret.op = "Stop" /\ ~es.started /\ es.healthSrv
    /\ ret.did.log = <<"health", "watcher", "conn", "cancel", "wait", "datastore">>

\* The level of one recorded check.
CheckLevel(value) ==
    IF value \in {"not_started"} THEN "unhealthy"
    ELSE IF value \in {"error", "reloader_not_available", "not_loaded"} THEN "degraded"
    ELSE IF value = "not_available" THEN "unavailable"
    ELSE "healthy"

\* The levels of the checks of a HealthStatus: a missing connection lowers
\* the status to degraded, a missing datastore to unhealthy.
Levels(h) ==
    {IF CheckLevel(h.checks[k]) = "unavailable"
     THEN (IF k = "datastore" THEN "unhealthy" ELSE "degraded")
     ELSE CheckLevel(h.checks[k]) : k \in DOMAIN h.checks}

Worst(levels) ==
    IF "unhealthy" \in levels THEN "unhealthy"
    ELSE IF "degraded" \in levels THEN "degraded"
    ELSE "healthy"

C28_NotSerialized ==
    \A t \in Threads :
        pc[t] = "rs_reload"
            => /\ ENABLED RSReload(t)
               /\ es.mu # t
               /\ \A c \in Callers :
                     pc[c] = "idle" /\ es.mu = 0 => ENABLED RSBegin(c)

\* A manual reload and a watcher-triggered reload are in their RPC phase at
\* the same time.
C28_Witness ==
    \E c \in Callers, t \in TimerIds : pc[c] = "rs_reload" /\ pc[t] = "rs_reload"

\* Two manual reloads are in their RPC phase at the same time.
C28_TwoManual == \A c \in Callers : pc[c] = "rs_reload"

IsPlain(f) == ~IsManifest(f)

\* Every file of the list resolves without error.
AllResolve(files) ==
    \A i \in DOMAIN files :
        /\ files[i].readable
        /\ IsManifest(files[i]) => ReloadManifest(files[i]).err = "nil"

\* The document of a list as its files are now: the plain-text parts, then
\* the manifests' parts.
DocumentNow(files) ==
    Join(PartsInOrder(SelectSeq(files, IsPlain))
             \o PartsInOrder(SelectSeq(files, IsManifest)), "\n\n")

\* C29: a Reload call submits at most once: exactly once when every file
\* resolved and the assembled document is not empty, the document being
\* assembled from the files as they are at the call (nothing cached), also
\* when the submit fails (no retry); and not at all when it fails earlier.
C29_OneSubmit ==
    [][ret'.op = "Reload"
          => LET files == config.SchemaFiles
                 ok == Len(files) > 0 /\ AllResolve(files) /\ DocumentNow(files) # ""
             IN /\ Len(ret'.schema.submitted) <= 1
                /\ ok => /\ ret'.schema.submitted = <<DocumentNow(files)>>
                         /\ ret'.err \in {"nil", "write failed"}
                /\ ~ok => /\ ret'.schema.submitted = <<>>
                          /\ ret'.err \in {"no schema files configured", "read failed",
                                           "parse failed", "not local",
                                           "no schema content found in files"}]_vars

\* A Reload whose submit failed has submitted once.
C29_Witness ==
    /\ ret.op = "Reload" /\ ret.err = "write failed"
    /\ Len(ret.schema.submitted) = 1 /\ Len(config.SchemaFiles) = MaxFiles

\* C30: the observer list is append-only. No step removes or reorders
\* entries; OnSchemaReloaded, in any state, appends exactly one entry at the
\* end; and a reload that notifies goes through the list as it was copied, in
\* order, so that observers registered before Start are notified after it.
C30_AppendOnly ==
    [][/\ IsPrefix(es.reloadCallbacks, es'.reloadCallbacks)
       /\ IF ret'.op = "OnSchemaReloaded"
          THEN /\ Len(es'.reloadCallbacks) = Len(es.reloadCallbacks) + 1
               /\ es'.reloadCallbacks[Len(es'.reloadCallbacks)]
                     \notin Range(es.reloadCallbacks)
          ELSE es'.reloadCallbacks = es.reloadCallbacks
       /\ ret'.op = "ReloadSchema" /\ ret'.did.notified # <<>>
             => /\ IsPrefix(ret'.did.cbs, es'.reloadCallbacks)
                /\ ret'.did.notified
                      = [i \in DOMAIN ret'.did.cbs |-> <<ret'.did.cbs[i], ret'.err>>]]_vars

\* An observer has been registered after a Stop, next to one registered
\* earlier.
C30_Witness ==
    /\ ret.op = "OnSchemaReloaded" /\ ServiceState = "Stopped"
    /\ Len(es.reloadCallbacks) = 2

\* C31: HealthCheck takes its snapshot in one read-locked section, so it never
\* sees a Start or a Stop half applied: no Start or Stop is in progress when
\* it reads; a snapshot with started = true has the connection handle (not
\* closed by the coordinator), the reloader and the start time present; a
\* snapshot with started = false has no open connection. HealthCheck changes
\* no coordinator state, no call in progress and no goroutine's position.
C31_ConsistentSnapshot ==
    [][ret'.op = "HealthCheck"
          => /\ ServiceState \in {"Created", "Running", "Stopped"}
             /\ HealthSnapshot.started
                   => /\ HealthSnapshot.conn # 0
                      /\ connClosed[HealthSnapshot.conn] = 0
                      /\ HealthSnapshot.reloader # 0
                      /\ HealthSnapshot.startTime # -1
                      /\ ret'.err = "nil"
             /\ ~HealthSnapshot.started
                   => /\ HealthSnapshot.conn # 0 => connClosed[HealthSnapshot.conn] = 1
                      /\ ret'.err = "not started"
             /\ UNCHANGED <<coordinator, config, pc, call>>]_vars

\* HealthCheck has answered on the connection of a second Start, the handle
\* of the first one closed by the Stop in between.
C31_Witness ==
    /\ ret.op = "HealthCheck" /\ ret.err = "nil"
    /\ es.conn = 2 /\ connClosed[1] = 1 /\ connClosed[2] = 0

RECURSIVE Pow2(_)
Pow2(n) == IF n = 0 THEN 1 ELSE 2 * Pow2(n - 1)

Min(a, b) == IF a < b THEN a ELSE b

\* The dial loop of a call, as far as it has got.
DialBounded(d) ==
    /\ d.attempts <= 10
    /\ Len(d.waits) <= d.attempts
    /\ \A k \in DOMAIN d.waits : d.waits[k] = Min(10 * Pow2(k - 1), 500)

\* C32: dialWithRetry makes at most 10 attempts per Start; the wait after the
\* k-th failed attempt is min(10ms * 2^(k-1), 500ms); the first successful
\* attempt returns the handle with no further attempt or wait; a cancellation
\* of the caller's context or of es.ctx taken during a wait returns with no
\* further attempt; and the loop gives up after the wait that follows the
\* tenth failed attempt.
C32_DialBackoff ==
    [][/\ \A c \in Callers : DialBounded(call'[c])
       /\ ret'.op = "dialWithRetry"
             => LET d == ret'.did
                    c == CHOOSE x \in Callers : pc[x] # pc'[x]
                IN /\ DialBounded(d)
                   /\ pc'[c] \in {"start_watch", "start_rollback"}
                   /\ ret'.err = "nil"
                         => /\ ret'.handle # 0
                            /\ pc[c] = "dial_attempt"
                            /\ d.attempts = call[c].attempts + 1
                            /\ Len(d.waits) = d.attempts - 1
                            /\ d.waits = call[c].waits
                   /\ ret'.err \in {"ctx", "es.ctx"}
                         => /\ ret'.handle = 0
                            /\ pc[c] = "dial_wait"
                            /\ d = call[c]
                            /\ Len(d.waits) = d.attempts - 1
                            /\ IF ret'.err = "ctx" THEN d.ctxDone ELSE es.cancelled
                   /\ ret'.err = "failed after retries"
                         => /\ ret'.handle = 0
                            /\ d.attempts = 10 /\ Len(d.waits) = 10
                   /\ ret'.err \in {"nil", "ctx", "es.ctx", "failed after retries"}
       /\ \A c \in Callers :
             pc[c] \in {"start_watch", "start_rollback"}
                => pc'[c] \notin {"dial_attempt", "dial_wait"}]_vars

\* The ninth attempt has succeeded, after eight waits the last of which was
\* held at the cap.
C32_Witness ==
    /\ ret.op = "dialWithRetry" /\ ret.err = "nil"
    /\ ret.did.attempts = 9
    /\ ret.did.waits = <<10, 20, 40, 80, 160, 320, 500, 500>>

\* The loop has given up after ten attempts.
C32_GivenUp ==
    /\ ret.op = "dialWithRetry" /\ ret.err = "failed after retries"
    /\ ret.did.waits = <<10, 20, 40, 80, 160, 320, 500, 500, 500, 500>>

\* A cancellation of the caller's context has ended the loop during a wait.
C32_Cancelled ==
    ret.op = "dialWithRetry" /\ ret.err = "ctx" /\ ret.did.attempts = 3

\* C33: a trigger that returns an error does not stop or disable the watcher.
\* Whatever the trigger returns, its return only releases fw.mu: the stopped
\* flag, the loop, the watches and the timers are as before and the pending
\* set is still empty. After a failed trigger a qualifying edit is recorded
\* and arms a new timer as before, and a callback that finds a pending change
\* invokes the trigger again.
C33_TriggerErrorSwallowed ==
    [][/\ ret'.op = "reloadFunc"
             => /\ fw' = [fw EXCEPT !.mu = 0, !.failed = @ \/ ret'.err # "nil"]
                /\ fw'.pending = <<>>
                /\ UNCHANGED <<timers, burst>>
       /\ fw.failed /\ ~fw.stopped /\ fw.mu = 0
             => /\ /\ fw.loop = "running" /\ ~fw.closed
                   /\ NextTimer <= lim.timers
                      => ENABLED (/\ FsEvent("f1", {"Write"})
                                  /\ "f1" \in DOMAIN fw'.pending
                                  /\ timers'[fw'.timer].state = "armed")
                /\ \A t \in TimerIds :
                      pc[t] = "lock" /\ DOMAIN fw.pending # {}
                         => ENABLED (CallbackLock(t) /\ pc'[t] = "trigger")]_vars

\* A trigger is running on a watcher one of whose earlier triggers returned
\* an error.
C33_Witness ==
    /\ fw.failed /\ ~fw.stopped
    /\ \E t \in TimerIds : pc[t] = "trigger" /\ fw.mu = t

\* The timer the watcher refers to is still to flush: armed, or fired with
\* its callback yet to take fw.mu.
FlushOutstanding ==
    /\ fw.timer # 0
    /\ \/ timers[fw.timer].state = "armed"
       \/ timers[fw.timer].state = "fired" /\ pc[fw.timer] = "lock"

\* C34: the pending set is empty unless a qualifying change has been
\* recorded that no trigger has flushed yet. It grows only by the path of a
\* qualifying event recorded by a watcher that is not stopped; it is emptied
\* by each debounce fire and stays empty while the trigger runs; it is empty
\* from Stop on, whatever events arrive; and while it is not empty the timer
\* armed for the last recorded change is outstanding.
C34_PendingInvariant ==
    [][/\ fw'.stopped => fw'.pending = <<>>
       /\ \A t \in TimerIds : pc'[t] = "trigger" => fw'.pending = <<>>
       /\ DOMAIN fw'.pending # {}
             => ~fw'.stopped /\ FlushOutstanding'
       /\ DOMAIN fw'.pending # DOMAIN fw.pending
             => \/ /\ ret'.op = "event" /\ Qualifies(fw, ret'.name, ret'.bits)
                   /\ ~fw.stopped
                   /\ DOMAIN fw'.pending = DOMAIN fw.pending \cup {ret'.name}
                \/ /\ fw'.pending = <<>>
                   /\ \/ ~fw.stopped /\ fw'.stopped
                      \/ \E t \in TimerIds : pc[t] = "lock" /\ pc'[t] = "trigger"]_vars

\* Two changes are pending while the timer armed for the second has fired
\* and its callback has not run yet.
C34_Witness ==
    /\ DOMAIN fw.pending = {"f1", "f2"}
    /\ fw.timer # 0 /\ timers[fw.timer].state = "fired" /\ pc[fw.timer] = "lock"

\* A qualifying event has arrived at a stopped watcher whose loop still runs.
C34_EventAfterStop ==
    /\ ret.op = "event" /\ ret.name \in fw.files /\ "Write" \in ret.bits
    /\ fw.stopped /\ fw.loop = "running"

\* C35: whenever the coordinator is Running, es.ctx has not been cancelled
\* (the serve task of the last Start has not been told to exit) and the
\* datastore has not been closed, also after a Start that follows a Stop or
\* a Start that failed on dialing.
C35_RunningOnLiveScope ==
    ServiceState = "Running" => ~es.cancelled /\ dsClosed = 0

\* A recorded change is waiting for its trigger.
ChangePending == DOMAIN fw.pending # {}

\* A trigger has just been invoked: it runs, the pending set flushed.
TriggerBegun == \E t \in TimerIds : pc[t] = "trigger" /\ fw.mu = t /\ fw.pending = <<>>

\* The step just taken recorded a qualifying event.
EditRecorded == ret.op = "event" /\ Qualifies(fw, ret.name, ret.bits) /\ ~fw.stopped

\* C36 as stated: provided Stop is never called and the clock, the timers,
\* the callbacks and the trigger are scheduled fairly, every recorded
\* qualifying change is followed by a trigger invocation that begins after it
\* was recorded.
C36_AsStated == ([]~fw.stopped) => (ChangePending ~> TriggerBegun)

\* C36, amended: the same, provided also that the qualifying events stop
\* arriving at some point. (No trigger runs while a change is pending, so the
\* trigger that follows has begun after the change was recorded.)
C36_NoEditLost ==
    (([]~fw.stopped) /\ <>[]~EditRecorded) => (ChangePending ~> TriggerBegun)

\* A trigger runs for a change that was recorded while the callback of an
\* earlier, fired timer was still waiting to run, and that timer's successor
\* is still armed.
C36_Witness ==
    /\ TriggerBegun /\ ~fw.stopped
    /\ fw.timer # 0 /\ timers[fw.timer].state = "armed" /\ fw.mu # fw.timer

\* The timer callbacks whose trigger call is in progress.
Triggering ==
    {t \in TimerIds : pc[t] \in {"trigger", "rs_reload", "rs_copy", "rs_notify"}}

\* C37: at most one trigger call of the watcher is in progress at any time.
\* The callback that runs it holds fw.mu from before the call until it has
\* returned; until then no other callback starts a trigger, no change is
\* recorded, no timer is armed or stopped, and nothing of the watcher changes.
C37_OneTriggerAtATime ==
    [][/\ Cardinality(Triggering') <= 1
       /\ \A t \in Triggering :
             /\ fw.mu = t
             /\ fw.pending = <<>>
             /\ t \in Triggering'
                   => /\ fw' = fw
                      /\ burst' = burst
                      /\ \A i \in TimerIds :
                            timers'[i] # timers[i]
                               => /\ timers[i].state = "armed"
                                  /\ timers'[i] = [timers[i] EXCEPT !.state = "fired"]
             /\ t \notin Triggering' => Triggering' = {} /\ fw'.mu = 0]_vars

\* A trigger runs while the callback of a second timer, which has fired in
\* the meantime, waits for fw.mu.
C37_Witness ==
    \E t, u \in TimerIds :
        /\ t # u /\ pc[t] = "trigger" /\ fw.mu = t
        /\ pc[u] = "lock" /\ timers[u].state = "fired" /\ ~fw.stopped

\* The step invokes an observer.
Notifies ==
    \E t \in Threads :
        /\ pc[t] = "rs_notify"
        /\ \/ Len(call'[t].notified) > Len(call[t].notified)
           \/ call'[t] = NoCall /\ Len(ret'.did.notified) > Len(call[t].notified)

\* C38 as stated: no observer is invoked after Stop() has returned, that is
\* while the state is Stopped.
C38_AsStated == [][Notifies => ServiceState # "Stopped"]_vars

\* C38, amended: a ReloadSchema call gets past the started check only while
\* the coordinator is Running, and a call that got past it delivers the
\* outcome of its reload to every observer registered when it copies the
\* list, whatever the state is by then: a call whose RPC is in flight when
\* Stop runs invokes the observers after Stop has returned. A call that
\* begins once the state is Stopped invokes none.
C38_AdmittedCallsDeliver ==
    [][/\ \A t \in Threads :
             /\ call[t].op # "ReloadSchema" /\ call'[t].op = "ReloadSchema"
                   => ServiceState = "Running"
             /\ pc[t] = "rs_copy" /\ pc'[t] # "rs_copy"
                   => \/ call'[t].cbs = es.reloadCallbacks /\ pc'[t] = "rs_notify"
                      \/ es.reloadCallbacks = <<>> /\ ret'.op = "ReloadSchema"
       /\ Notifies => \E t \in Threads : call[t].op = "ReloadSchema" /\ call[t].snap # 0
       /\ ret'.op = "ReloadSchema"
             => IF ret'.did.outcome = "none"
                THEN ret'.did.notified = <<>> /\ ret'.err \in {"not started", "no reloader"}
                ELSE ret'.did.notified
                        = [i \in DOMAIN ret'.did.cbs |-> <<ret'.did.cbs[i], ret'.err>>]]_vars

\* A ReloadSchema call has returned in state Stopped after it invoked an
\* observer with the outcome of its reload.
C38_Witness ==
    /\ ret.op = "ReloadSchema" /\ ret.did.notified # <<>>
    /\ ServiceState = "Stopped"

\* C39: the initial reload inside Start invokes no observer, whatever its
\* outcome and also with observers registered before Start: no step of a
\* Start (or of any call but ReloadSchema) adds an observer invocation, a
\* returning Start has invoked none, and every invocation is made by a
\* ReloadSchema call, manual or coming from the watcher's trigger, at its
\* notification step.
C39_StartNotifiesNobody ==
    [][/\ \A t \in Threads :
             call'[t].notified # call[t].notified
                => \/ call'[t] = NoCall
                   \/ /\ call[t].op = "ReloadSchema" /\ pc[t] = "rs_notify"
                      /\ t \in TimerIds => fw.reloadFunc = "ReloadSchema" /\ fw.mu = t
       /\ \A c \in Callers :
             call'[c].op = "Start" => call'[c].notified = <<>>
       /\ ret'.did.notified # <<>> => ret'.op = "ReloadSchema"
       /\ ret'.op = "Start" => ret'.did.notified = <<>>]_vars

\* Start has returned nil after its initial reload failed, with two
\* observers registered beforehand.
C39_Witness ==
    /\ ret.op = "Start" /\ ret.err = "nil" /\ ret.did.outcome = "reload failed"
    /\ Len(es.reloadCallbacks) = 2 /\ launched = 1

\* The initial reload has succeeded with an observer registered beforehand.
C39_Loaded ==
    /\ ret.op = "Start" /\ ret.did.outcome = "nil" /\ Len(es.reloadCallbacks) > 0

\* The timers that are armed: created, not stopped, not yet fired.
Armed(ts) == {i \in TimerIds : ts[i].state = "armed"}

\* C40: at most one debounce timer is outstanding at any time, and it is the
\* one the watcher refers to. The step that arms a timer for a newly
\* recorded change stops the timer armed before; Stop's locked part stops
\* the armed timer and sets the reference to nil, and nothing is armed on a
\* stopped watcher.
C40_OneTimer ==
    [][/\ Cardinality(Armed(timers')) <= 1
       /\ \A i \in Armed(timers') : fw'.timer = i /\ ~fw'.stopped
       /\ \A j \in Armed(timers') \ Armed(timers) :
             /\ ret'.op = "event" /\ ret'.name \in DOMAIN fw'.pending
             /\ \A i \in Armed(timers) : timers'[i].state = "stopped"
       /\ ~fw.stopped /\ fw'.stopped
             => /\ fw'.timer = 0
                /\ \A i \in Armed(timers) : timers'[i].state = "stopped"
       /\ fw.stopped => fw'.timer = 0 /\ Armed(timers') = {}]_vars

\* A second change has been recorded before the first timer expired: the
\* first timer is stopped, the second is armed and referred to.
C40_Witness ==
    /\ ~fw.stopped /\ fw.timer = 2
    /\ timers[1].state = "stopped" /\ timers[2].state = "armed"
    /\ ret.op = "event"

\* Stop has cancelled an armed timer.
C40_Stopped ==
    /\ fw.stopped /\ fw.timer = 0
    /\ \E i \in TimerIds : timers[i].state = "stopped"
    /\ \E c \in Callers : pc[c] = "w_close"
====
